---------------------------- MODULE Spec2Model ----------------------------
(***************************************************************************)
(* A model of the afterglow-core data providers.                           *)
(*                                                                         *)
(* Part 1 models LocalDiskDataProvider (local_disk_provider.py) over an    *)
(* explicit POSIX file tree.  File names are sequences of one-character    *)
(* strings, so that the string operations the provider relies on           *)
(* (str.strip, str.startswith, str.split, os.path.join, os.path.abspath,   *)
(* os.path.basename, os.path.dirname, glob) are computed character by      *)
(* character, as Python computes them.                                     *)
(***************************************************************************)
EXTENDS Integers, Sequences, FiniteSets, TLC

(***************************************************************************)
(* Python str and posixpath operations                                     *)
(***************************************************************************)

\* os.path.sep on POSIX
Sep == "/"

\* the empty str
EmptyStr == << >>

\* the process' working directory, used by os.path.abspath for relative names
Cwd == <<"/">>

\* s[i:] (0-based i, as in Python)
Drop(s, i) == IF i >= Len(s) THEN EmptyStr ELSE SubSeq(s, i + 1, Len(s))

\* s[:i]
Take(s, i) == IF i <= 0 THEN EmptyStr ELSE SubSeq(s, 1, IF i > Len(s) THEN Len(s) ELSE i)

\* str.startswith
startswith(s, prefix) ==
    /\ Len(prefix) <= Len(s)
    /\ \A i \in 1..Len(prefix) : s[i] = prefix[i]

\* str.lstrip(c) for a single character c
RECURSIVE lstrip(_, _)
lstrip(s, c) == IF s # EmptyStr /\ Head(s) = c THEN lstrip(Tail(s), c) ELSE s

\* str.rstrip(c) for a single character c
RECURSIVE rstrip(_, _)
rstrip(s, c) ==
    IF s # EmptyStr /\ s[Len(s)] = c THEN rstrip(Take(s, Len(s) - 1), c) ELSE s

\* str.strip(c) for a single character c
strip(s, c) == rstrip(lstrip(s, c), c)

\* str.replace('\\', '/'): the alphabet of the model holds no backslash, and
\* the replacement is computed all the same
replace_backslash(s) == [i \in 1..Len(s) |-> IF s[i] = "\\" THEN Sep ELSE s[i]]

\* str.find(sub): the 0-based index of the first occurrence, or -1
RECURSIVE FindFrom(_, _, _)
FindFrom(s, sub, i) ==
    IF i + Len(sub) > Len(s) THEN -1
    ELSE IF startswith(Drop(s, i), sub) THEN i
    ELSE FindFrom(s, sub, i + 1)

\* str.split(sep) for a non-empty separator: the list of the parts
RECURSIVE split(_, _)
split(s, sep) ==
    LET i == FindFrom(s, sep, 0)
    IN  IF i < 0 THEN <<s>>
        ELSE <<Take(s, i)>> \o split(Drop(s, i + Len(sep)), sep)

\* sep.join(parts)
RECURSIVE JoinWith(_, _)
JoinWith(parts, sep) ==
    IF parts = << >> THEN EmptyStr
    ELSE IF Len(parts) = 1 THEN parts[1]
    ELSE parts[1] \o sep \o JoinWith(Tail(parts), sep)

\* str.rfind('/') + 1: the 0-based index just after the last separator
RECURSIVE AfterLastSep(_)
AfterLastSep(s) ==
    IF s = EmptyStr THEN 0
    ELSE IF s[Len(s)] = Sep THEN Len(s)
    ELSE AfterLastSep(Take(s, Len(s) - 1))

\* posixpath.basename
basename(s) == Drop(s, AfterLastSep(s))

\* posixpath.dirname
dirname(s) ==
    LET head == Take(s, AfterLastSep(s))
    IN  IF head # EmptyStr /\ lstrip(head, Sep) # EmptyStr THEN rstrip(head, Sep)
        ELSE head

\* posixpath.isabs
isabs(s) == s # EmptyStr /\ Head(s) = Sep

\* posixpath.join(a, b)
join(a, b) ==
    IF isabs(b) THEN b
    ELSE IF a = EmptyStr \/ a[Len(a)] = Sep THEN a \o b
    ELSE a \o <<Sep>> \o b

\* the component loop of posixpath.normpath
RECURSIVE NormComps(_, _, _)
NormComps(comps, acc, initial_slashes) ==
    IF comps = << >> THEN acc
    ELSE LET comp == Head(comps)
             rest == Tail(comps)
         IN  IF comp = EmptyStr \/ comp = <<".">>
                 THEN NormComps(rest, acc, initial_slashes)
             ELSE IF comp # <<".", ".">>
                     \/ (initial_slashes = 0 /\ acc = << >>)
                     \/ (acc # << >> /\ acc[Len(acc)] = <<".", ".">>)
                 THEN NormComps(rest, Append(acc, comp), initial_slashes)
             ELSE IF acc # << >>
                 THEN NormComps(rest, Take(acc, Len(acc) - 1), initial_slashes)
             ELSE NormComps(rest, acc, initial_slashes)

\* posixpath.normpath
normpath(s) ==
    IF s = EmptyStr THEN <<".">>
    ELSE LET initial_slashes ==
                 IF ~isabs(s) THEN 0
                 ELSE IF startswith(s, <<Sep, Sep>>) /\ ~startswith(s, <<Sep, Sep, Sep>>)
                      THEN 2 ELSE 1
             comps == NormComps(split(s, <<Sep>>), << >>, initial_slashes)
             path == [i \in 1..initial_slashes |-> Sep] \o JoinWith(comps, <<Sep>>)
         IN  IF path = EmptyStr THEN <<".">> ELSE path

\* posixpath.abspath
abspath(s) == normpath(IF isabs(s) THEN s ELSE join(Cwd, s))

(***************************************************************************)
(* The file tree and the os / os.path / shutil calls the provider makes    *)
(***************************************************************************)

\* A file tree maps each existing absolute normalized name to its node:
\* a directory, or a regular file with its bytes (data) and whether the
\* server process may open it (accessible: the mode and owner of the file
\* let the process read and write it).  Directories carry NoContent.
\* The bytes of a file are a record of what the program can observe of
\* them: their length and what each decoder library (external to the
\* repository) makes of them.  None is << >> and a present value v is <<v>>.
None == << >>

Some(v) == <<v>>

\* an EXIF tag dictionary reduced to the tags _get_asset reads
NoExif ==
    [ExposureTime |-> None, DateTime |-> None, DateTimeOriginal |-> None,
     DateTimeDigitized |-> None]

\* astropy.io.fits: whether pyfits.open succeeds, the number of HDUs, the
\* primary header's cards, and whether every FILTER card is a str
NoFits ==
    [open |-> FALSE, layers |-> 0, NAXIS1 |-> None, NAXIS2 |-> None,
     EXPOSURE |-> None, TELESCOP |-> None, filter_ok |-> TRUE, FILTER |-> "",
     DATE_OBS |-> None, TIME_OBS |-> None]

\* PIL.Image: whether open succeeds, format, bands, size, and getexif()
NoPil ==
    [open |-> FALSE, format |-> "", nbands |-> 0, bands |-> "", width |-> 0,
     height |-> 0, exif_ok |-> TRUE, exif |-> NoExif]

\* rawpy: whether imread succeeds, raw_type, num_colors, color_desc, sizes
NoRaw ==
    [open |-> FALSE, raw_type |-> "", num_colors |-> 0, color_desc |-> "",
     width |-> 0, height |-> 0]

\* exifread.process_file: whether it succeeds and the tags it returns
NoExifRead == [ok |-> FALSE, exif |-> NoExif]

\* bytes no decoder accepts, of the given length
Junk(size) ==
    [size |-> size, fits |-> NoFits, pil |-> NoPil, raw |-> NoRaw,
     exifread |-> NoExifRead]

NoContent == Junk(0)

DirNode == [dir |-> TRUE, data |-> NoContent, accessible |-> TRUE]

FileNode(data, accessible) == [dir |-> FALSE, data |-> data, accessible |-> accessible]

\* the components of a name, as the kernel walks them
Comps(s) == split(s, <<Sep>>)

\* The kernel's path walk over an absolute name that need not be normalized:
\* the name of the node reached, or EmptyStr when the walk fails (ENOENT,
\* ENOTDIR).  Every component, also "", "." and "..", is looked up in a
\* directory.
RECURSIVE Walk(_, _, _)
Walk(fs, cur, comps) ==
    IF comps = << >> THEN cur
    ELSE IF cur \notin DOMAIN fs \/ ~fs[cur].dir THEN EmptyStr
    ELSE LET comp == Head(comps)
             next == IF comp = EmptyStr \/ comp = <<".">> THEN cur
                     ELSE IF comp = <<".", ".">> THEN dirname(cur)
                     ELSE join(cur, comp)
         IN  IF next \notin DOMAIN fs THEN EmptyStr
             ELSE Walk(fs, next, Tail(comps))

\* the node an absolute name resolves to, or EmptyStr
Lookup(fs, name) ==
    IF ~isabs(name) THEN EmptyStr
    ELSE Walk(fs, <<Sep>>, Tail(Comps(name)))

\* os.path.exists
exists(fs, name) == Lookup(fs, name) # EmptyStr

\* os.path.isdir
isdir(fs, name) == exists(fs, name) /\ fs[Lookup(fs, name)].dir

\* os.path.isfile
isfile(fs, name) == exists(fs, name) /\ ~fs[Lookup(fs, name)].dir

\* os.listdir: the names in a directory
listdir(fs, name) ==
    LET d == Lookup(fs, name)
    IN  {basename(n) : n \in {m \in DOMAIN fs : m # d /\ dirname(m) = d}}

\* the proper ancestors of a normalized absolute name, and the name itself
RECURSIVE Ancestors(_)
Ancestors(name) ==
    IF dirname(name) = name THEN {name}
    ELSE {name} \cup Ancestors(dirname(name))

\* a name and everything below it
Subtree(fs, name) ==
    {n \in DOMAIN fs : n = name \/ startswith(n, join(name, EmptyStr))}

\* the tree without the names in gone
Without(fs, gone) == [n \in DOMAIN fs \ gone |-> fs[n]]

\* the tree with node put at name
With(fs, name, node) ==
    [n \in DOMAIN fs \cup {name} |-> IF n = name THEN node ELSE fs[n]]

\* The outcome of a mutating call: the tree after it and whether it raised
\* OSError.
Done(fs) == [fs |-> fs, ok |-> TRUE]

Failed(fs) == [fs |-> fs, ok |-> FALSE]

\* os.makedirs(name) for a normalized absolute name: creates the missing
\* ancestors top-down and then name; FileExistsError when name exists,
\* NotADirectoryError when the deepest existing ancestor is a file (raised by
\* the first mkdir, before anything is created).
makedirs(fs, name) ==
    LET missing == {n \in Ancestors(name) : n \notin DOMAIN fs}
        blocked == \E n \in Ancestors(name) : n # name /\ n \in DOMAIN fs /\ ~fs[n].dir
    IN  IF name \in DOMAIN fs \/ blocked THEN Failed(fs)
        ELSE Done([n \in DOMAIN fs \cup missing |->
                     IF n \in missing THEN DirNode ELSE fs[n]])

\* a write that loses the bytes: the file is left empty-sized.  The
\* create-then-get property must not hold of it.
write_file_truncated(fs, name, data) ==
    IF \/ ~isdir(fs, dirname(name)) \/ isdir(fs, name)
       \/ (isfile(fs, name) /\ ~fs[Lookup(fs, name)].accessible)
    THEN Failed(fs)
    ELSE Done(With(fs, name, FileNode([data EXCEPT !.size = 0], TRUE)))

\* open(name, 'wb') + write(data): creates or truncates a regular file; fails
\* when the parent is not a directory, name is a directory, or name is a file
\* the process may not open.
write_file(fs, name, data) ==
    IF \/ ~isdir(fs, dirname(name)) \/ isdir(fs, name)
       \/ (isfile(fs, name) /\ ~fs[Lookup(fs, name)].accessible)
    THEN Failed(fs)
    ELSE Done(With(fs, name, FileNode(data, TRUE)))

\* shutil.rmtree(name) of a directory
rmtree(fs, name) ==
    IF ~isdir(fs, name) THEN Failed(fs)
    ELSE Done(Without(fs, Subtree(fs, name)))

\* os.remove / os.unlink of a regular file
unlink(fs, name) ==
    IF ~isfile(fs, name) THEN Failed(fs)
    ELSE Done(Without(fs, {name}))

\* a rename that copies: the node and what is below it also stay at old.
\* The rename property must not hold of it.
rename_copy(fs, old, new) ==
    IF \/ ~exists(fs, old) \/ ~isdir(fs, dirname(new))
       \/ startswith(new, join(old, EmptyStr)) \/ old = <<Sep>>
    THEN Failed(fs)
    ELSE Done([n \in DOMAIN fs \cup {new \o Drop(m, Len(old)) : m \in Subtree(fs, old)} |->
                 IF n \in DOMAIN fs THEN fs[n]
                 ELSE fs[CHOOSE m \in Subtree(fs, old) : new \o Drop(m, Len(old)) = n]])

\* os.rename(old, new) where new does not exist: moves the node and, for a
\* directory, everything below it; fails when new's parent is no directory
\* or new lies inside old.
rename(fs, old, new) ==
    IF \/ ~exists(fs, old) \/ ~isdir(fs, dirname(new))
       \/ startswith(new, join(old, EmptyStr)) \/ old = <<Sep>>
    THEN Failed(fs)
    ELSE LET moved == Subtree(fs, old)
             to(n) == new \o Drop(n, Len(old))
         IN  Done([n \in (DOMAIN fs \ moved) \cup {to(m) : m \in moved} |->
                     IF \E m \in moved : to(m) = n
                     THEN fs[CHOOSE m \in moved : to(m) = n]
                     ELSE fs[n]])


(***************************************************************************)
(* LocalDiskDataProvider._get_asset                                        *)
(***************************************************************************)

\* Which optional decoder libraries the deployment has installed (lines
\* 17-30: PILImage, rawpy, exifread are None when the import fails).
AllLibs == [PIL |-> TRUE, rawpy |-> TRUE, exifread |-> TRUE]

\* a timestamp string: its layout (the strptime formats it matches) and the
\* instant it denotes
Stamp(fmt, t) == [fmt |-> fmt, t |-> t]

\* datetime.strptime(s, fmt) succeeds exactly on the strings laid out as fmt
strptime_ok(s, fmt) == s.fmt = fmt

\* the local variables of _get_asset after line 148
Locals0 ==
    [imtype |-> None, layers |-> None, imwidth |-> None, imheight |-> None,
     explength |-> None, exptime |-> None, telescope |-> None, flt |-> None,
     exif |-> None]

\* exptime is a datetime (parsed) or a raw value that is no datetime
Parsed(t) == [parsed |-> TRUE, t |-> t]

Raw(t) == [parsed |-> FALSE, t |-> t]

\* the tag the FITS probe assigns (line 196)
FITS == <<"F", "I", "T", "S">>

\* lines 171-194: the DATE-OBS / TIME-OBS fallback chain.  A missing card is
\* a KeyError, which the outer handler swallows; a string of no known layout
\* is a ValueError, swallowed by the innermost handler.
fits_exptime(f, v) ==
    IF f.DATE_OBS = None THEN v
    ELSE LET d == f.DATE_OBS[1]
         IN  IF strptime_ok(d, "%Y-%m-%dT%H:%M:%S.%f") THEN [v EXCEPT !.exptime = Some(Parsed(d.t))]
             ELSE IF strptime_ok(d, "%Y-%m-%dT%H:%M:%S") THEN [v EXCEPT !.exptime = Some(Parsed(d.t))]
             ELSE IF f.TIME_OBS = None THEN v
             ELSE LET tm == f.TIME_OBS[1]
                  IN  IF d.fmt = "%Y-%m-%d" /\ tm.fmt \in {"%H:%M:%S.%f", "%H:%M:%S"}
                      THEN [v EXCEPT !.exptime = Some(Parsed(d.t))]
                      ELSE v

\* lines 150-198: the FITS probe.  Any exception leaves the probe with the
\* locals assigned so far and imtype still None.
fits_probe(node, v) ==
    LET f == node.data.fits
    IN  IF ~node.accessible \/ ~f.open THEN v
        ELSE LET v1 == [v EXCEPT !.layers = Some(f.layers)]
             IN  IF f.NAXIS1 = None THEN v1
                 ELSE LET v2 == [v1 EXCEPT !.imwidth = f.NAXIS1]
                      IN  IF f.NAXIS2 = None THEN v2
                          ELSE LET v3 == [v2 EXCEPT !.imheight = f.NAXIS2,
                                                    !.explength = f.EXPOSURE,
                                                    !.telescope = f.TELESCOP]
                               IN  IF ~f.filter_ok THEN v3
                                   ELSE [fits_exptime(f, [v3 EXCEPT !.flt = Some(f.FILTER)])
                                            EXCEPT !.imtype = Some(FITS)]

\* lines 204-219: the PIL probe.  im.format is assigned first, so a failure
\* of a later statement (getexif) leaves imtype set.
pil_probe(node, v) ==
    LET im == node.data.pil
    IN  IF ~im.open THEN v
        ELSE LET v1 == [v EXCEPT !.imtype = Some(im.format),
                                 !.layers = Some(im.nbands),
                                 !.flt = Some(im.bands),
                                 !.imwidth = Some(im.width),
                                 !.imheight = Some(im.height)]
             IN  IF im.exif_ok THEN [v1 EXCEPT !.exif = Some(im.exif)] ELSE v1

\* lines 221-243: the rawpy probe
raw_probe(node, v) ==
    LET im == node.data.raw
    IN  IF ~im.open THEN v
        ELSE [v EXCEPT !.imtype = Some(im.raw_type),
                       !.layers = Some(im.num_colors),
                       !.flt = Some(im.color_desc),
                       !.imwidth = Some(im.width),
                       !.imheight = Some(im.height)]

\* lines 245-256: ExifRead, tried only once some probe has set imtype
exifread_probe(node, v) ==
    IF node.data.exifread.ok THEN [v EXCEPT !.exif = Some(node.data.exifread.exif)]
    ELSE v

\* lines 258-286: exposure length and capture time from the EXIF tags.  A
\* DateTime value of no known layout stays in exptime as it is.
exif_fields(v) ==
    IF v.exif = None THEN v
    ELSE LET exif == v.exif[1]
             v1 == IF exif.ExposureTime # None
                   THEN [v EXCEPT !.explength = exif.ExposureTime] ELSE v
             tag == IF exif.DateTime # None THEN exif.DateTime
                    ELSE IF exif.DateTimeOriginal # None THEN exif.DateTimeOriginal
                    ELSE exif.DateTimeDigitized
         IN  IF tag = None THEN v1
             ELSE LET s == tag[1]
                  IN  IF s.fmt = "" THEN [v1 EXCEPT !.exptime = Some(Raw(s.t))]
                      ELSE IF strptime_ok(s, "%Y:%m:%d %H:%M:%S.%f")
                              \/ strptime_ok(s, "%Y:%m:%d %H:%M:%S")
                      THEN [v1 EXCEPT !.exptime = Some(Parsed(s.t))]
                      ELSE [v1 EXCEPT !.exptime = Some(Raw(s.t))]

\* the result of a call: the value returned, or the exception raised (exc)
Returned(ret) == [exc |-> "", ret |-> ret]

Raised(exc) == [exc |-> exc, ret |-> << >>]

\* DataProviderAsset
Asset(name, path, collection, metadata) ==
    [name |-> name, path |-> path, collection |-> collection, metadata |-> metadata]

\* st_mtime is not modelled: the modification time is the token "mtime"
MTime == "mtime"

\* lines 292-313: the asset record of a recognized file
leaf_asset(name, path, node, v) ==
    Asset(name, path, FALSE,
          [type |-> v.imtype[1], size |-> node.data.size,
           time |-> IF v.exptime # None THEN v.exptime[1].t ELSE MTime,
           layers |-> v.layers[1], width |-> v.imwidth[1],
           height |-> v.imheight[1]]
          @@ (IF v.explength # None THEN [exposure |-> v.explength[1]] ELSE << >>)
          @@ (IF v.telescope # None THEN [telescope |-> v.telescope[1]] ELSE << >>)
          @@ (IF v.flt # None THEN [filter |-> v.flt[1]] ELSE << >>))

\* lines 288-313: the end of _get_asset: UnrecognizedDataFormatError when
\* no probe set imtype; the AttributeError of str.isoformat (line 301) when
\* exptime is no datetime; else the asset
finish(name, path, node, v) ==
    IF v.imtype = None THEN Raised("UnrecognizedDataFormatError")
    ELSE IF v.exptime # None /\ ~v.exptime[1].parsed THEN Raised("AttributeError")
    ELSE Returned(leaf_asset(name, path, node, v))

\* lines 204-219, 221-243, 245-256: each later probe runs under its guard
pil_step(libs, node, v) == IF libs.PIL THEN pil_probe(node, v) ELSE v

raw_step(libs, node, v) ==
    IF v.imtype = None /\ libs.rawpy THEN raw_probe(node, v) ELSE v

\* ExifRead as a classifier of its own: it runs whatever the earlier probes
\* did and tags what it can read.  The no-fallback property must not hold of
\* it.
exifread_step_fallback(libs, node, v) ==
    IF libs.exifread /\ node.data.exifread.ok
    THEN [v EXCEPT !.exif = Some(node.data.exifread.exif),
                   !.imtype = IF v.imtype = None THEN Some(<<"E", "X", "I", "F">>)
                              ELSE v.imtype,
                   !.layers = IF v.layers = None THEN Some(1) ELSE v.layers,
                   !.imwidth = IF v.imwidth = None THEN Some(0) ELSE v.imwidth,
                   !.imheight = IF v.imheight = None THEN Some(0) ELSE v.imheight]
    ELSE v

exifread_step(libs, node, v) ==
    IF v.imtype # None /\ libs.exifread THEN exifread_probe(node, v) ELSE v

\* lines 200-286: when the FITS probe did not set imtype and PIL or rawpy is
\* installed, the file is opened (an OSError of open() at line 201 is not
\* handled) and the other probes run
after_fits(libs, name, path, node, v) ==
    IF v.imtype = None /\ (libs.PIL \/ libs.rawpy)
    THEN (IF ~node.accessible THEN Raised("OSError")
          ELSE finish(name, path, node,
                      exif_fields(exifread_step(libs, node,
                          raw_step(libs, node, pil_step(libs, node, v))))))
    ELSE finish(name, path, node, v)

\* lines 146-313: _get_asset for a regular file
get_leaf(libs, name, path, node) ==
    after_fits(libs, name, path, node, fits_probe(node, Locals0))

\* lines 121-313: _get_asset(path, filename).  The result is the asset, or
\* the exception that leaves the method.
get_asset_(libs, fs, path, filename) ==
    IF isdir(fs, filename)
    THEN Returned(Asset(basename(filename), strip(replace_backslash(path), Sep), TRUE,
                        [time |-> MTime]))
    ELSE IF ~exists(fs, filename) THEN Raised("OSError")
    ELSE get_leaf(libs, basename(filename), strip(replace_backslash(path), Sep),
                  fs[Lookup(fs, filename)])

(***************************************************************************)
(* glob.glob and fnmatch                                                   *)
(***************************************************************************)

\* glob.has_magic: the model's alphabet holds the wildcard * only
has_magic(s) == \E i \in 1..Len(s) : s[i] = "*"

\* fnmatch.fnmatch(name, pat) for patterns of literal characters and *
RECURSIVE fnmatch(_, _)
fnmatch(name, pat) ==
    IF pat = EmptyStr THEN name = EmptyStr
    ELSE IF Head(pat) = "*"
         THEN \E i \in 0..Len(name) : fnmatch(Drop(name, i), Tail(pat))
    ELSE name # EmptyStr /\ Head(name) = Head(pat) /\ fnmatch(Tail(name), Tail(pat))

\* glob._glob1: the names of a directory that match, hidden names (leading
\* dot) only for a pattern that starts with a dot itself
glob1(fs, dir, pattern) ==
    IF ~isdir(fs, dir) THEN {}
    ELSE {n \in listdir(fs, dir) :
            /\ (Head(pattern) = "." \/ Head(n) # ".")
            /\ fnmatch(n, pattern)}

\* glob._glob0: a literal last component
glob0(fs, dir, base) ==
    IF base = EmptyStr THEN (IF isdir(fs, dir) THEN {base} ELSE {})
    ELSE IF exists(fs, join(dir, base)) THEN {base} ELSE {}

\* glob.glob(pathname) for an absolute pathname: the matching names, as the
\* strings glob builds them (directory part kept as written, not normalized).
\* The order of the list is the order of os.listdir, which is unspecified:
\* the result is the set.
RECURSIVE glob(_, _)
glob(fs, pathname) ==
    LET dir == dirname(pathname)
        base == basename(pathname)
    IN  IF ~has_magic(pathname)
        THEN (IF base # EmptyStr
              THEN (IF exists(fs, pathname) THEN {pathname} ELSE {})
              ELSE (IF isdir(fs, dir) THEN {pathname} ELSE {}))
        ELSE LET dirs == IF dir # pathname /\ has_magic(dir) THEN glob(fs, dir)
                         ELSE {dir}
             IN  UNION {{join(d, n) : n \in IF has_magic(base) THEN glob1(fs, d, base)
                                            ELSE glob0(fs, d, base)} : d \in dirs}


(***************************************************************************)
(* Python values of the search parameters                                  *)
(***************************************************************************)

\* None, an int, a bool or a str
PyNone == [t |-> "none", i |-> 0, s |-> EmptyStr]

PyInt(i) == [t |-> "int", i |-> i, s |-> EmptyStr]

PyBool(b) == [t |-> "bool", i |-> IF b THEN 1 ELSE 0, s |-> EmptyStr]

PyStr(s) == [t |-> "str", i |-> 0, s |-> s]

\* the truth value `if x:` tests
truthy(x) ==
    CASE x.t = "none" -> FALSE
      [] x.t = "str" -> x.s # EmptyStr
      [] OTHER -> x.i # 0

Digits == <<"0", "1", "2", "3", "4", "5", "6", "7", "8", "9">>

IsDigit(c) == \E d \in 1..10 : Digits[d] = c

DigitVal(c) == (CHOOSE d \in 1..10 : Digits[d] = c) - 1

RECURSIVE DecVal(_)
DecVal(s) == IF s = EmptyStr THEN 0 ELSE 10 * DecVal(Take(s, Len(s) - 1)) + DigitVal(s[Len(s)])

\* int(x): [ok, v]; ok is FALSE where int raises ValueError (a str that is
\* no optionally signed run of decimal digits)
int(x) ==
    IF x.t # "str" THEN [ok |-> TRUE, v |-> x.i]
    ELSE LET neg == x.s # EmptyStr /\ Head(x.s) = "-"
             ds == IF neg THEN Tail(x.s) ELSE x.s
         IN  IF ds # EmptyStr /\ \A k \in 1..Len(ds) : IsDigit(ds[k])
             THEN [ok |-> TRUE, v |-> IF neg THEN 0 - DecVal(ds) ELSE DecVal(ds)]
             ELSE [ok |-> FALSE, v |-> 0]

(***************************************************************************)
(* LocalDiskDataProvider                                                   *)
(* Each method is a chain of operators, one per stage of the method, the   *)
(* value computed by a stage being the parameter of the next.              *)
(***************************************************************************)

\* The provider's configuration: root (line 63) and peruser (line 62); and
\* the decoder libraries of the deployment.
Config(root, peruser, libs) == [root |-> root, peruser |-> peruser, libs |-> libs]

\* The outcome of a provider call: the tree after it, the exception raised
\* ("" when the call returns), the assets returned (ret: a set, the order of
\* a list being that of os.listdir) and the bytes returned (data).
Res(fs, exc, ret) == [fs |-> fs, exc |-> exc, ret |-> ret, data |-> None]

\* the exceptions derived from errors.AfterglowError
AfterglowErrors ==
    {"AssetNotFoundError", "AssetAlreadyExistsError", "AssetOutsideRootError",
     "CannotUpdateCollectionAssetError", "UnrecognizedDataFormatError",
     "FilesystemError", "ValidationError"}

\* the value of abs_root: the tree, whether it returned (ok) or raised
\* FilesystemError, and the root p
Root(fs, ok, p) == [fs |-> fs, ok |-> ok, p |-> p]

\* lines 94-102: the outcome m of os.makedirs(p)
made_root(m, p) == Root(m.fs, m.ok, p)

\* lines 89-102: the workspace p of a user, created when it does not exist
user_root(fs, p) == IF ~exists(fs, p) THEN made_root(makedirs(fs, p), p) ELSE Root(fs, TRUE, p)

\* lines 78-103: abs_root for the current user (user_id is EmptyStr for a
\* caller with no id)
abs_root(cfg, fs, user_id) ==
    IF cfg.peruser /\ user_id # EmptyStr
    THEN user_root(fs, join(abspath(cfg.root), user_id))
    ELSE Root(fs, TRUE, abspath(cfg.root))

\* line 116: the test that filename is inside root
inside_root(filename, root) == startswith(filename, root)

\* the value of _path_to_filename: the tree, the exception raised ("" when
\* it returns) and the filename
Resolved(fs, exc, filename) == [fs |-> fs, exc |-> exc, filename |-> filename]

\* lines 116-118
check_inside(r, filename) ==
    IF ~inside_root(filename, r.p) THEN Resolved(r.fs, "AssetOutsideRootError", filename)
    ELSE Resolved(r.fs, "", filename)

\* lines 114-118, r being the value of abs_root
resolve_in(r, path) ==
    IF ~r.ok THEN Resolved(r.fs, "FilesystemError", EmptyStr)
    ELSE check_inside(r, abspath(join(r.p, strip(path, Sep))))

\* lines 105-118: _path_to_filename
path_to_filename(cfg, fs, user_id, path) == resolve_in(abs_root(cfg, fs, user_id), path)

\* the result of _get_asset as the result of the provider call
FromGetAsset(fs, g) == Res(fs, g.exc, IF g.exc = "" THEN {g.ret} ELSE {})

\* lines 324-327, f being the value of _path_to_filename
get_asset_at(cfg, path, f) ==
    IF f.exc # "" THEN Res(f.fs, f.exc, {})
    ELSE IF ~exists(f.fs, f.filename) THEN Res(f.fs, "AssetNotFoundError", {})
    ELSE FromGetAsset(f.fs, get_asset_(cfg.libs, f.fs, path, f.filename))

\* lines 315-327: get_asset
get_asset(cfg, fs, user_id, path) ==
    get_asset_at(cfg, path, path_to_filename(cfg, fs, user_id, path))

\* the value of s.split(root + os.path.sep): the index [1] raises
\* IndexError when it has a single part
has_part1(parts) == Len(parts) >= 2

\* lines 346 and 431: filename.split(root + os.path.sep)
split_root(filename, root) == split(filename, root \o <<Sep>>)

\* lines 343-350: the list comprehension over the glob matches fns
children(r, fns) ==
    IF \E fn \in fns : ~has_part1(split_root(fn, r.p)) THEN Res(r.fs, "IndexError", {})
    ELSE Res(r.fs, "",
             {Asset(basename(fn), replace_backslash(split_root(fn, r.p)[2]),
                    isdir(r.fs, fn), [time |-> MTime]) : fn \in fns})

\* lines 342-350, r being the value of abs_root
list_dir(r, filename) ==
    IF ~r.ok THEN Res(r.fs, "FilesystemError", {})
    ELSE children(r, glob(r.fs, join(filename, <<"*">>)))

\* lines 338-350, f being the value of _path_to_filename
get_child_assets_at(cfg, user_id, f) ==
    IF f.exc # "" THEN Res(f.fs, f.exc, {})
    ELSE IF ~isdir(f.fs, f.filename) THEN Res(f.fs, "AssetNotFoundError", {})
    ELSE list_dir(abs_root(cfg, f.fs, user_id), f.filename)

\* lines 329-350: get_child_assets
get_child_assets(cfg, fs, user_id, path) ==
    get_child_assets_at(cfg, user_id, path_to_filename(cfg, fs, user_id, path))

\* lines 377-403: the search filters.  A str splits into the list of its
\* comma-separated parts; collection, width and height go through int().
type_filter(type) ==
    IF type # None /\ type[1] # EmptyStr THEN Some(split(type[1], <<",">>)) ELSE None

collection_filter(collection) ==
    IF truthy(collection) THEN Some(int(collection).v # 0) ELSE None

int_filter(x) == IF truthy(x) THEN Some(int(x).v) ELSE None

\* the parameter whose int() raises ValueError, in the order of the code's
\* checks; "" when none does
invalid_filter(collection, width, height) ==
    IF truthy(collection) /\ ~int(collection).ok THEN "collection"
    ELSE IF truthy(width) /\ ~int(width).ok THEN "width"
    ELSE IF truthy(height) /\ ~int(height).ok THEN "height"
    ELSE ""

\* what becomes of one glob match: skipped ("skip"), an Asset ("asset"), or
\* an exception that leaves the loop ("raise")
Cand(k, g) == [k |-> k, g |-> g]

\* lines 429-434: the outcome g of _get_asset for a match; an AfterglowError
\* is swallowed, any other exception leaves the loop
classified(g) ==
    IF g.exc = "" THEN Cand("asset", g)
    ELSE IF g.exc \in AfterglowErrors THEN Cand("skip", g)
    ELSE Cand("raise", g)

\* lines 430-431, parts being filename.split(root + os.path.sep)
in_root(cfg, fs, filename, parts) ==
    IF ~has_part1(parts) THEN Cand("raise", Raised("IndexError"))
    ELSE classified(get_asset_(cfg.libs, fs, parts[2], filename))

\* lines 425-434: one glob match; coll is the collection filter
candidate(cfg, fs, root, filename, coll) ==
    IF coll # None /\ isdir(fs, filename) # coll[1] THEN Cand("skip", Raised(""))
    ELSE in_root(cfg, fs, filename, split_root(filename, root))

\* lines 436-456: the type, width and height filters on the metadata md of
\* one asset; a missing metadata key is a KeyError, which excludes the asset
passes_filters(md, types, width, height) ==
    /\ types # None =>
          "type" \in DOMAIN md /\ \E k \in 1..Len(types[1]) : types[1][k] = md["type"]
    /\ width # None => "width" \in DOMAIN md /\ md["width"] = width[1]
    /\ height # None => "height" \in DOMAIN md /\ md["height"] = height[1]

\* lines 424-461: the loop over the candidates.  The loop visits the matches
\* in the order of os.listdir, so when several matches raise, which
\* exception leaves the call depends on that order: the set of the outcomes.
search_loop(fs, cands, types, width, height) ==
    IF \E c \in cands : c.k = "raise"
    THEN {Res(fs, c.g.exc, {}) : c \in {c \in cands : c.k = "raise"}}
    ELSE {Res(fs, "", {c.g.ret : c \in {c \in cands : c.k = "asset" /\
                           passes_filters(c.g.ret.metadata, types, width, height)}})}

\* lines 417-461, f being the search directory
search_in(cfg, q, r, f) ==
    IF f.exc # "" THEN {Res(f.fs, f.exc, {})}
    ELSE IF ~isdir(f.fs, f.filename) THEN {Res(f.fs, "AssetNotFoundError", {})}
    ELSE search_loop(f.fs,
             {candidate(cfg, f.fs, r.p, fn, collection_filter(q.collection)) :
                 fn \in glob(f.fs, join(f.filename,
                                        IF q.name = None \/ q.name[1] = EmptyStr
                                        THEN <<"*">> ELSE q.name[1]))},
             type_filter(q.type), int_filter(q.width), int_filter(q.height))

\* lines 405-461, r being the value of abs_root
search_from(cfg, q, r) ==
    IF ~r.ok THEN {Res(r.fs, "FilesystemError", {})}
    ELSE search_in(cfg, q, r,
                   IF q.path = None THEN Resolved(r.fs, "", r.p)
                   ELSE check_inside(r, abspath(join(r.p, strip(q.path[1], Sep)))))

\* a search query: the arguments of find_assets
Query(path, name, type, collection, width, height) ==
    [path |-> path, name |-> name, type |-> type, collection |-> collection,
     width |-> width, height |-> height]

\* lines 352-461: find_assets: the set of the outcomes the call can have
find_assets(cfg, fs, user_id, q) ==
    IF invalid_filter(q.collection, q.width, q.height) # ""
    THEN {Res(fs, "ValidationError", {})}
    ELSE search_from(cfg, q, abs_root(cfg, fs, user_id))

\* lines 475-489: the file is read; transparent decompression is not
\* modelled (no name of the model ends in .gz or .bz2)
read_file(fs, node) ==
    IF ~node.accessible THEN Res(fs, "FilesystemError", {})
    ELSE [Res(fs, "", {}) EXCEPT !.data = Some(node.data)]

\* lines 472-489, f being the value of _path_to_filename
get_asset_data_at(f) ==
    IF f.exc # "" THEN Res(f.fs, f.exc, {})
    ELSE IF ~isfile(f.fs, f.filename) THEN Res(f.fs, "AssetNotFoundError", {})
    ELSE read_file(f.fs, f.fs[Lookup(f.fs, f.filename)])

\* lines 463-489: get_asset_data
get_asset_data(cfg, fs, user_id, path) ==
    get_asset_data_at(path_to_filename(cfg, fs, user_id, path))

\* lines 524-528, w being the outcome of the write
created(cfg, path, filename, w) ==
    IF ~w.ok THEN Res(w.fs, "FilesystemError", {})
    ELSE FromGetAsset(w.fs, get_asset_(cfg.libs, w.fs, path, filename))

\* lines 516-528, m being the outcome of making the parent directory
create_in(cfg, path, data, filename, m) ==
    IF ~m.ok THEN Res(m.fs, "FilesystemError", {})
    ELSE created(cfg, path, filename,
                 IF data = None THEN makedirs(m.fs, filename)
                 ELSE write_file(m.fs, filename, data[1]))

\* create_asset without the existence check of lines 503-504.  The
\* create property must not hold of it.
create_at_unchecked(cfg, path, data, f) ==
    IF f.exc # "" THEN Res(f.fs, f.exc, {})
    ELSE create_in(cfg, path, data, f.filename,
                   IF ~exists(f.fs, dirname(f.filename))
                   THEN makedirs(f.fs, dirname(f.filename)) ELSE Done(f.fs))

\* lines 503-528, f being the value of _path_to_filename
create_at(cfg, path, data, f) ==
    IF f.exc # "" THEN Res(f.fs, f.exc, {})
    ELSE IF exists(f.fs, f.filename) THEN Res(f.fs, "AssetAlreadyExistsError", {})
    ELSE create_in(cfg, path, data, f.filename,
                   IF ~exists(f.fs, dirname(f.filename))
                   THEN makedirs(f.fs, dirname(f.filename)) ELSE Done(f.fs))

\* lines 491-528: create_asset; data is None or Some(bytes)
create_asset(cfg, fs, user_id, path, data) ==
    create_at(cfg, path, data, path_to_filename(cfg, fs, user_id, path))

\* lines 555-557, parts being new_filename.split(self.abs_root + os.path.sep)
renamed_asset(cfg, fs, new_filename, parts) ==
    IF ~has_part1(parts) THEN Res(fs, "IndexError", {})
    ELSE FromGetAsset(fs, get_asset_(cfg.libs, fs, replace_backslash(parts[2]),
                                     new_filename))

\* lines 555-557, r being the value of abs_root
renamed_in(cfg, r, new_filename) ==
    IF ~r.ok THEN Res(r.fs, "FilesystemError", {})
    ELSE renamed_asset(cfg, r.fs, new_filename, split_root(new_filename, r.p))

\* lines 550-557, mv being the outcome of os.rename
renamed(cfg, user_id, new_filename, mv) ==
    IF ~mv.ok THEN Res(mv.fs, "FilesystemError", {})
    ELSE renamed_in(cfg, abs_root(cfg, mv.fs, user_id), new_filename)

\* lines 546-557
rename_to(cfg, fs, user_id, filename, new_filename) ==
    IF exists(fs, new_filename) THEN Res(fs, "AssetAlreadyExistsError", {})
    ELSE renamed(cfg, user_id, new_filename, rename(fs, filename, new_filename))

\* lines 541-557, f being the value of _path_to_filename
rename_at(cfg, user_id, name, f) ==
    IF f.exc # "" THEN Res(f.fs, f.exc, {})
    ELSE IF ~exists(f.fs, f.filename) THEN Res(f.fs, "AssetNotFoundError", {})
    ELSE rename_to(cfg, f.fs, user_id, f.filename,
                   join(dirname(f.filename), basename(name)))

\* lines 530-557: rename_asset
rename_asset(cfg, fs, user_id, path, name) ==
    rename_at(cfg, user_id, name, path_to_filename(cfg, fs, user_id, path))

\* lines 594-597, w being the outcome of the write
updated(cfg, path, filename, w) ==
    IF ~w.ok THEN Res(w.fs, "FilesystemError", {})
    ELSE FromGetAsset(w.fs, get_asset_(cfg.libs, w.fs, path, filename))

\* lines 586-589: a file in the way of the new directory is unlinked, un
\* being the outcome; then the directory is made
make_collection(un, filename) == IF ~un.ok THEN un ELSE makedirs(un.fs, filename)

\* lines 583-597, fs being the tree after the removal of a collection
write_update(cfg, fs, path, data, filename) ==
    updated(cfg, path, filename,
            IF data = None
            THEN make_collection(IF exists(fs, filename) THEN unlink(fs, filename)
                                 ELSE Done(fs), filename)
            ELSE write_file(fs, filename, data[1]))

\* lines 578-597, rm being the outcome of shutil.rmtree
removed(cfg, path, data, filename, rm) ==
    IF ~rm.ok THEN Res(rm.fs, "FilesystemError", {})
    ELSE write_update(cfg, rm.fs, path, data, filename)

\* update_asset without the force test of lines 576-577: a collection is
\* always removed.  The update property must not hold of it.
update_at_forced(cfg, path, data, force, f) ==
    IF f.exc # "" THEN Res(f.fs, f.exc, {})
    ELSE IF ~exists(f.fs, f.filename) THEN Res(f.fs, "AssetNotFoundError", {})
    ELSE IF isdir(f.fs, f.filename)
         THEN removed(cfg, path, data, f.filename, rmtree(f.fs, f.filename))
    ELSE write_update(cfg, f.fs, path, data, f.filename)

\* lines 573-597, f being the value of _path_to_filename
update_at(cfg, path, data, force, f) ==
    IF f.exc # "" THEN Res(f.fs, f.exc, {})
    ELSE IF ~exists(f.fs, f.filename) THEN Res(f.fs, "AssetNotFoundError", {})
    ELSE IF isdir(f.fs, f.filename)
         THEN (IF ~force THEN Res(f.fs, "CannotUpdateCollectionAssetError", {})
               ELSE removed(cfg, path, data, f.filename, rmtree(f.fs, f.filename)))
    ELSE write_update(cfg, f.fs, path, data, f.filename)

\* lines 559-597: update_asset
update_asset(cfg, fs, user_id, path, data, force) ==
    update_at(cfg, path, data, force, path_to_filename(cfg, fs, user_id, path))

\* lines 610-621, rm being the outcome of shutil.rmtree or os.remove
deleted(rm) ==
    IF ~rm.ok THEN Res(rm.fs, "FilesystemError", {}) ELSE Res(rm.fs, "", {})

\* lines 607-621, f being the value of _path_to_filename
delete_at(f) ==
    IF f.exc # "" THEN Res(f.fs, f.exc, {})
    ELSE IF ~exists(f.fs, f.filename) THEN Res(f.fs, "AssetNotFoundError", {})
    ELSE deleted(IF isdir(f.fs, f.filename) THEN rmtree(f.fs, f.filename)
                 ELSE unlink(f.fs, f.filename))

\* lines 599-621: delete_asset
delete_asset(cfg, fs, user_id, path) ==
    delete_at(path_to_filename(cfg, fs, user_id, path))

(***************************************************************************)
(* The state machine: one provider instance serving one call at a time     *)
(* (the provider is synchronous: a call runs to completion on the caller's *)
(* thread).  Serving a call runs the whole method and records the call and *)
(* its outcome in last; Respond hands the outcome to the caller and clears *)
(* the record.                                                             *)
(***************************************************************************)

VARIABLES
    cfg,    \* the provider's configuration, fixed at construction
    fs,     \* the file tree of the host
    last,   \* the call being answered: operation, caller, arguments, outcome
    nmut    \* the number of mutating calls served so far

\* The parts of the repository that share no state with the local provider
\* have specifications of their own, each over its own variable.
VARIABLES
    probe,  \* _get_asset on one file: the libraries, the file, the result
    ro,     \* RestrictedRWLocalDiskDataProvider: identity, writers, last read
    date,   \* FTPDataProvider._get_date: the path and the result
    ftp,    \* FTPDataProvider: the server, its sessions, the call served
    race    \* concurrent create_asset calls: the path and each call's position

vars == <<cfg, fs, last, nmut, probe, ro, date, ftp, race>>

\* the value of a variable in the specifications it is no part of
Unused == "unused"

\* the number of mutating calls (create, rename, update, delete) a run makes
MaxMut == 1

\* names used by the model
RootDir == <<"/", "d">>

SiblingDir == <<"/", "d", "2">>

\* user ids of the callers; EmptyStr is a caller with no id
Users == {EmptyStr, <<"1">>}

Callers == IF cfg.peruser THEN Users ELSE {EmptyStr}

\* file contents: a FITS image of the given size, a JPEG, bytes no decoder
\* accepts
FitsImage(w, h) ==
    [Junk(w * h) EXCEPT !.fits = [NoFits EXCEPT !.open = TRUE, !.layers = 1,
                                               !.NAXIS1 = Some(w), !.NAXIS2 = Some(h)]]

JPEG == <<"J", "P", "E", "G">>

JpegImage(w, h) ==
    [Junk(w * h + 1) EXCEPT !.pil = [NoPil EXCEPT !.open = TRUE, !.format = JPEG,
                                                 !.nbands = 3, !.bands = "R,G,B",
                                                 !.width = w, !.height = h]]

\* a JPEG whose EXIF DateTime tag has none of the layouts line 279-284 parse
BadExifJpeg ==
    [JpegImage(1, 1) EXCEPT !.pil.exif.DateTime = Some(Stamp("", "exif"))]

\* the tree the provider is started on: the root with a populated collection
\* a (a FITS file f, a file u the server may not open, a JPEG e with an
\* unparsable EXIF date), a JPEG g, a file j no decoder accepts, the populated
\* workspace of user 1, and a sibling of the root, d2, with a file s
InitTree ==
    (<<"/">> :> DirNode)
    @@ (RootDir :> DirNode)
    @@ (<<"/", "d", "/", "a">> :> DirNode)
    @@ (<<"/", "d", "/", "a", "/", "f">> :> FileNode(FitsImage(2, 1), TRUE))
    @@ (<<"/", "d", "/", "a", "/", "u">> :> FileNode(Junk(1), FALSE))
    @@ (<<"/", "d", "/", "a", "/", "e">> :> FileNode(BadExifJpeg, TRUE))
    @@ (<<"/", "d", "/", "g">> :> FileNode(JpegImage(1, 1), TRUE))
    @@ (<<"/", "d", "/", "j">> :> FileNode(Junk(2), TRUE))
    @@ (<<"/", "d", "/", "1">> :> DirNode)
    @@ (<<"/", "d", "/", "1", "/", "a">> :> DirNode)
    @@ (<<"/", "d", "/", "1", "/", "a", "/", "f">> :> FileNode(FitsImage(1, 1), TRUE))
    @@ (SiblingDir :> DirNode)
    @@ (<<"/", "d", "2", "/", "s">> :> FileNode(FitsImage(1, 1), TRUE))

NoQuery == Query(None, None, None, PyNone, PyNone, PyNone)

\* the record of a call: the operation, the caller, the arguments, the tree
\* the call found (before) and its outcome
Call(op, user, path, r) ==
    [op |-> op, user |-> user, path |-> path, name |-> None, data |-> None,
     force |-> FALSE, query |-> NoQuery, before |-> InitTree, exc |-> r.exc,
     ret |-> r.ret, out |-> r.data]

NoCall == Call("", EmptyStr, EmptyStr, Res(InitTree, "", {}))

\* asset paths the callers pass
Paths ==
    { EmptyStr,
      <<"a">>,
      <<"a", "/", "f">>,
      <<"a", "/", "f", "/", "x">>,
      <<"n", "/", "m">>,
      <<".", "h">>,
      <<".", ".", "/", "d", "2", "/", "s">>,
      <<".", ".">> }

\* new names passed to rename_asset
Names == { <<"r">>, <<"x", "/", "g">> }

\* payloads passed to create_asset and update_asset
Datas == { None, Some(FitsImage(1, 2)), Some(Junk(3)) }

\* queries passed to find_assets
Queries ==
    { NoQuery,
      Query(Some(<<"a">>), None, None, PyNone, PyNone, PyNone),
      Query(Some(<<"a">>), Some(<<"f", "*">>), Some(FITS), PyNone, PyInt(2), PyNone),
      Query(Some(<<"a">>), Some(<<"f", "*">>), Some(FITS), PyNone, PyInt(1), PyNone),
      Query(Some(<<"a">>), None, Some(FITS), PyNone, PyNone, PyNone),
      Query(None, None, Some(JPEG \o <<",">> \o FITS), PyNone, PyNone, PyStr(<<"1">>)),
      Query(None, None, Some(FITS), PyNone, PyNone, PyNone),
      Query(None, None, None, PyInt(1), PyNone, PyNone),
      Query(None, None, None, PyStr(<<"0">>), PyNone, PyNone),
      Query(None, None, None, PyStr(<<"x">>), PyNone, PyNone),
      Query(None, None, None, PyBool(FALSE), PyNone, PyNone),
      Query(None, None, None, PyInt(2), PyNone, PyNone),
      Query(Some(<<"n">>), None, None, PyNone, PyStr(<<"0">>), PyNone),
      Query(Some(<<"n">>), None, None, PyStr(<<"x">>), PyNone, PyNone),
      Query(Some(EmptyStr), Some(<<".", ".", "/", "*">>), None, PyNone, PyNone, PyNone),
      Query(Some(<<"a">>), Some(<<".", ".", "/", "*">>), None, PyNone, PyNone, PyNone),
      Query(Some(<<"n">>), Some(<<"*">>), None, PyNone, PyNone, PyInt(2)),
      Query(Some(<<".", ".">>), None, None, PyNone, PyNone, PyNone) }

Init ==
    /\ cfg \in {Config(RootDir, peruser, AllLibs) : peruser \in BOOLEAN}
    /\ fs = InitTree
    /\ last = NoCall
    /\ nmut = 0
    /\ probe = Unused /\ ro = Unused /\ date = Unused /\ ftp = Unused /\ race = Unused

Idle == last.op = ""

\* a read-only call was served
Served(call, r) ==
    /\ fs' = r.fs
    /\ last' = [call EXCEPT !.before = fs]
    /\ UNCHANGED <<cfg, nmut, probe, ro, date, ftp, race>>

\* a mutating call was served
Mutated(call, r) ==
    /\ fs' = r.fs
    /\ last' = [call EXCEPT !.before = fs]
    /\ nmut' = nmut + 1
    /\ UNCHANGED <<cfg, probe, ro, date, ftp, race>>

GetAsset ==
    /\ Idle
    /\ \E user \in Callers, path \in Paths :
        LET r == get_asset(cfg, fs, user, path)
        IN  Served(Call("get_asset", user, path, r), r)

GetChildAssets ==
    /\ Idle
    /\ \E user \in Callers, path \in Paths :
        LET r == get_child_assets(cfg, fs, user, path)
        IN  Served(Call("get_child_assets", user, path, r), r)

FindAssets ==
    /\ Idle
    /\ \E user \in Callers, q \in Queries :
        \E r \in find_assets(cfg, fs, user, q) :
            Served([Call("find_assets", user, EmptyStr, r) EXCEPT !.query = q], r)

GetAssetData ==
    /\ Idle
    /\ \E user \in Callers, path \in Paths :
        LET r == get_asset_data(cfg, fs, user, path)
        IN  Served(Call("get_asset_data", user, path, r), r)

CreateAsset ==
    /\ Idle
    /\ nmut < MaxMut
    /\ \E user \in Callers, path \in Paths, data \in Datas :
        LET r == create_asset(cfg, fs, user, path, data)
        IN  Mutated([Call("create_asset", user, path, r) EXCEPT !.data = data], r)

RenameAsset ==
    /\ Idle
    /\ nmut < MaxMut
    /\ \E user \in Callers, path \in Paths, name \in Names :
        LET r == rename_asset(cfg, fs, user, path, name)
        IN  Mutated([Call("rename_asset", user, path, r) EXCEPT !.name = Some(name)], r)

UpdateAsset ==
    /\ Idle
    /\ nmut < MaxMut
    /\ \E user \in Callers, path \in Paths, data \in Datas, force \in BOOLEAN :
        LET r == update_asset(cfg, fs, user, path, data, force)
        IN  Mutated([Call("update_asset", user, path, r) EXCEPT
                       !.data = data, !.force = force], r)

DeleteAsset ==
    /\ Idle
    /\ nmut < MaxMut
    /\ \E user \in Callers, path \in Paths :
        LET r == delete_asset(cfg, fs, user, path)
        IN  Mutated(Call("delete_asset", user, path, r), r)

\* the outcome is handed to the caller
Respond ==
    /\ ~Idle
    /\ last' = NoCall
    /\ UNCHANGED <<cfg, fs, nmut, probe, ro, date, ftp, race>>

Next ==
    \/ GetAsset
    \/ GetChildAssets
    \/ FindAssets
    \/ GetAssetData
    \/ CreateAsset
    \/ RenameAsset
    \/ UpdateAsset
    \/ DeleteAsset
    \/ Respond

Spec == Init /\ [][Next]_vars


(***************************************************************************)
(* Properties.  The state right after a call holds the call (last), the    *)
(* tree it found (last.before) and the tree it left (fs), so a property of *)
(* one call, or of a call followed by a read, is an invariant.             *)
(***************************************************************************)

\* filename is root itself or lies below it
Within(filename, root) == filename = root \/ startswith(filename, root \o <<Sep>>)

\* the asset path of a name below root
RelPath(filename, root) == Drop(filename, Len(root) + 1)

\* a proper ancestor of name is a regular file
LeafAbove(tree, name) ==
    \E n \in Ancestors(name) \ {name} : n \in DOMAIN tree /\ ~tree[n].dir

\* the operations that take an asset path
PathOps ==
    {"get_asset", "get_child_assets", "get_asset_data", "create_asset",
     "rename_asset", "update_asset", "delete_asset"}

\* the operations that return assets
AssetOps ==
    {"get_asset", "get_child_assets", "find_assets", "create_asset",
     "rename_asset", "update_asset"}

\* the root of the caller of the last call, and what the resolver made of the
\* path of the last call
LastRoot == abs_root(cfg, last.before, last.user)

Resolution == path_to_filename(cfg, last.before, last.user, last.path)

\* C1: the resolver raises AssetOutsideRootError whenever the canonicalized
\* join of root and path is neither the root nor below it, and otherwise
\* returns exactly that canonical name.
C1_ResolverRejectsOutside ==
    (last.op \in PathOps /\ LastRoot.ok) =>
        IF Within(normpath(join(LastRoot.p, last.path)), LastRoot.p)
        THEN /\ Resolution.exc = ""
             /\ Resolution.filename = normpath(join(LastRoot.p, last.path))
             /\ last.exc # "AssetOutsideRootError"
        ELSE /\ Resolution.exc = "AssetOutsideRootError"
             /\ last.exc = "AssetOutsideRootError"

\* the path argument of the last call (the search path of a find_assets, the
\* root when it has none) names the caller's root or something below it
PathArgInside ==
    IF last.op = "find_assets"
    THEN last.query.path = None
            \/ Within(normpath(join(LastRoot.p, last.query.path[1])), LastRoot.p)
    ELSE Within(normpath(join(LastRoot.p, last.path)), LastRoot.p)

\* C2: every asset a call returns has a path that resolves to the caller's
\* root or below it.  (Stated of the calls whose own path argument lies in
\* the root: a violation is then not the resolver accepting an outside path.)
C2_ReturnedInsideRoot ==
    (last.op \in AssetOps /\ last.exc = "" /\ PathArgInside) =>
        \A a \in last.ret : Within(abspath(join(LastRoot.p, a.path)), LastRoot.p)

\* the payload is one a decoder recognizes: _get_asset returns for a file
\* holding it
Recognized(data) ==
    get_leaf(cfg.libs, EmptyStr, EmptyStr, FileNode(data, TRUE)).exc = ""

\* a normalized asset path: relative, no empty, "." or ".." segment
Normalized(path) ==
    /\ path # EmptyStr
    /\ normpath(path) = path
    /\ ~isabs(path)
    /\ \A c \in {Comps(path)[i] : i \in 1..Len(Comps(path))} : c # <<".", ".">>

\* what get_asset of the path of the last call gives on the tree it left
GetAfter == get_asset(cfg, fs, last.user, last.path)

\* the asset is the leaf at path of the given size
IsLeafOf(a, path, size) ==
    a.path = path /\ ~a.collection /\ a.metadata.size = size

SameOutside(t1, t2, changed) ==
    /\ DOMAIN t1 \ changed = DOMAIN t2 \ changed
    /\ \A n \in DOMAIN t1 \ changed : t1[n] = t2[n]

\* the last call left at name a collection with nothing in it (data is None)
\* or a leaf holding exactly data
Holds(name, data) ==
    IF data = None
    THEN isdir(fs, name) /\ Subtree(fs, name) = {name}
    ELSE isfile(fs, name) /\ fs[name].data = data[1]

\* C4 as stated, of the paths the resolver accepts: create_asset raises
\* AssetAlreadyExistsError and changes nothing when the path exists;
\* otherwise it creates the missing parent collections and then a
\* collection, or a leaf holding the payload.
C4_CreateOrExists_Always ==
    (last.op = "create_asset" /\ Resolution.exc = "") =>
        IF exists(last.before, Resolution.filename)
        THEN last.exc = "AssetAlreadyExistsError" /\ fs = last.before
        ELSE /\ \A n \in Ancestors(Resolution.filename) : n \in DOMAIN fs
             /\ Holds(Resolution.filename, last.data)

\* C4, amended: a path the resolver rejects fails with the resolver's error;
\* a path that exists fails with AssetAlreadyExistsError; a path below a leaf
\* fails with FilesystemError; each leaves the tree as root resolution left
\* it.  Every other path has its missing parents created, and then holds an
\* empty collection or a leaf with exactly the payload, nothing else changed.
C4_CreateOrExists ==
    last.op = "create_asset" =>
        IF Resolution.exc # ""
        THEN last.exc = Resolution.exc /\ fs = Resolution.fs
        ELSE IF exists(Resolution.fs, Resolution.filename)
        THEN last.exc = "AssetAlreadyExistsError" /\ fs = Resolution.fs
        ELSE IF LeafAbove(Resolution.fs, Resolution.filename)
        THEN last.exc = "FilesystemError" /\ fs = Resolution.fs
        ELSE /\ last.exc # "AssetAlreadyExistsError" /\ last.exc # "FilesystemError"
             /\ \A n \in Ancestors(Resolution.filename) \ {Resolution.filename} :
                   isdir(fs, n)
             /\ Holds(Resolution.filename, last.data)
             /\ SameOutside(fs, Resolution.fs, Ancestors(Resolution.filename))

\* a create_asset made a parent collection on the way
C4_Witness ==
    /\ last.op = "create_asset" /\ last.exc = ""
    /\ \E n \in DOMAIN fs \ DOMAIN last.before : n # Resolution.filename

\* the path with the new name: the new base name in the directory of path
NewPath(path, name) == join(dirname(strip(path, Sep)), basename(name))

\* the name rename_asset moves filename to (lines 544-545)
NewFilename(filename, name) == join(dirname(filename), basename(name))

\* C5: on a path the resolver accepts, rename_asset raises AssetNotFoundError
\* when the path does not exist, and AssetAlreadyExistsError when it does and
\* the destination exists too; after a rename that returns, get_asset of the
\* old path raises AssetNotFoundError, get_asset of the path with the new name
\* returns the asset the rename returned, and what was at and below the old
\* name is at and below the new one.
C5_Rename ==
    (last.op = "rename_asset" /\ Resolution.exc = "") =>
        /\ ~exists(Resolution.fs, Resolution.filename) =>
              last.exc = "AssetNotFoundError" /\ fs = Resolution.fs
        /\ (/\ exists(Resolution.fs, Resolution.filename)
            /\ exists(Resolution.fs, NewFilename(Resolution.filename, last.name[1]))) =>
              last.exc = "AssetAlreadyExistsError" /\ fs = Resolution.fs
        /\ last.exc = "" =>
              /\ GetAfter.exc = "AssetNotFoundError"
              /\ get_asset(cfg, fs, last.user, NewPath(last.path, last.name[1])).exc = ""
              /\ get_asset(cfg, fs, last.user, NewPath(last.path, last.name[1])).ret = last.ret
              /\ \A a \in last.ret :
                    /\ a.name = basename(last.name[1])
                    /\ a.path = NewPath(last.path, last.name[1])
              /\ \A m \in Subtree(Resolution.fs, Resolution.filename) :
                    LET to == NewFilename(Resolution.filename, last.name[1])
                                 \o Drop(m, Len(Resolution.filename))
                    IN  m \notin DOMAIN fs /\ to \in DOMAIN fs /\ fs[to] = Resolution.fs[m]

\* a rename_asset of a populated collection returned
C5_Witness ==
    /\ last.op = "rename_asset" /\ last.exc = ""
    /\ Subtree(last.before, Resolution.filename) # {Resolution.filename}

\* C6: delete_asset of a missing path raises AssetNotFoundError and changes
\* nothing; delete_asset of a populated collection removes it and everything
\* below it, and get_child_assets of the collection or of any former
\* descendant then raises AssetNotFoundError.
C6_DeleteRemovesAll ==
    (last.op = "delete_asset" /\ Resolution.exc = "") =>
        /\ ~exists(last.before, Resolution.filename) =>
              last.exc = "AssetNotFoundError" /\ fs = last.before
        /\ (/\ Within(Resolution.filename, LastRoot.p)
            /\ Subtree(last.before, Resolution.filename) # {Resolution.filename}
            /\ isdir(last.before, Resolution.filename)) =>
              /\ last.exc = ""
              /\ Subtree(last.before, Resolution.filename) \cap DOMAIN fs = {}
              /\ \A n \in Subtree(last.before, Resolution.filename) :
                    get_child_assets(cfg, fs, last.user,
                                     IF n = Resolution.filename THEN last.path
                                     ELSE RelPath(n, LastRoot.p)).exc
                        = "AssetNotFoundError"

C8_CreatedCollectionListed ==
    (/\ last.op = "create_asset" /\ last.data = None /\ last.exc = ""
     /\ Normalized(last.path)) =>
        /\ get_child_assets(cfg, fs, last.user, dirname(last.path)).exc = ""
        /\ \E a \in get_child_assets(cfg, fs, last.user, dirname(last.path)).ret :
              a.collection /\ a.path = last.path

\* the failures of find_assets that come before the candidates are visited:
\* a bad filter value, a search path outside the root or that is no collection,
\* a workspace that cannot be made
SearchErrors ==
    {"ValidationError", "AssetOutsideRootError", "AssetNotFoundError", "FilesystemError"}

\* C9: a candidate that cannot be classified, whatever the error, is only
\* left out: find_assets never fails because of a candidate.
C9_BadCandidateOnlyExcluded ==
    last.op = "find_assets" => last.exc = "" \/ last.exc \in SearchErrors

\* a type, width or height filter is given (and no collection filter)
ActiveFilter(q) ==
    /\ (q.type # None /\ q.type[1] # EmptyStr) \/ truthy(q.width) \/ truthy(q.height)
    /\ q.collection = PyNone
    /\ invalid_filter(q.collection, q.width, q.height) = ""

\* the metadata has the values the filters of the query ask for
MatchesQuery(md, q) ==
    /\ (q.type # None /\ q.type[1] # EmptyStr) =>
          /\ "type" \in DOMAIN md
          /\ md["type"] \in {split(q.type[1], <<",">>)[i] :
                                i \in 1..Len(split(q.type[1], <<",">>))}
    /\ truthy(q.width) => "width" \in DOMAIN md /\ md["width"] = int(q.width).v
    /\ truthy(q.height) => "height" \in DOMAIN md /\ md["height"] = int(q.height).v

\* the directory a query searches and the names its pattern matches there
SearchDir(q) ==
    IF q.path = None THEN LastRoot.p
    ELSE abspath(join(LastRoot.p, strip(q.path[1], Sep)))

NameMatches(q) ==
    glob(last.before,
         join(SearchDir(q), IF q.name = None \/ q.name[1] = EmptyStr THEN <<"*">>
                            ELSE q.name[1]))

\* C10: with a type, width or height filter, find_assets returns exactly the
\* name-matching candidates that are recognized assets whose metadata has the
\* values asked for; the others are left out without error.
C10_FilterExact ==
    (/\ last.op = "find_assets" /\ ActiveFilter(last.query) /\ LastRoot.ok
     /\ Within(SearchDir(last.query), LastRoot.p)
     /\ isdir(last.before, SearchDir(last.query))) =>
        /\ last.exc = ""
        /\ \A a \in last.ret : MatchesQuery(a.metadata, last.query)
        /\ \A fn \in NameMatches(last.query) :
              LET g == get_asset_(cfg.libs, last.before, RelPath(fn, LastRoot.p), fn)
              IN  (g.exc = "" /\ MatchesQuery(g.ret.metadata, last.query)) =>
                      g.ret \in last.ret


\* the value names true (True, 1, "1") or false (False, 0, "0")
NamesTrue(x) == x \in {PyBool(TRUE), PyInt(1), PyStr(<<"1">>)}

NamesFalse(x) == x \in {PyBool(FALSE), PyInt(0), PyStr(<<"0">>)}

\* C11: find_assets with collection given as True or "1" returns only
\* collection assets, and with collection given as False, 0 or "0" only
\* non-collection assets.
C11_CollectionFilter ==
    (last.op = "find_assets" /\ last.exc = "") =>
        /\ NamesTrue(last.query.collection) => \A a \in last.ret : a.collection
        /\ NamesFalse(last.query.collection) => \A a \in last.ret : ~a.collection

\* the value is a positive integer, as an int or as its decimal digits
PositiveInt(x) == x.t \in {"int", "str"} /\ int(x).ok /\ int(x).v > 0

\* a filter value of the query is malformed: a collection that is given and
\* names neither true nor false, a width or height that is given and is no
\* positive integer
Malformed(q) ==
    \/ q.collection # PyNone /\ ~NamesTrue(q.collection) /\ ~NamesFalse(q.collection)
    \/ q.width # PyNone /\ ~PositiveInt(q.width)
    \/ q.height # PyNone /\ ~PositiveInt(q.height)

\* C12: find_assets raises ValidationError, and neither a provider failure
\* nor a result, whenever a filter value is malformed, whether or not the
\* search path exists.
C12_MalformedIsValidationError ==
    (last.op = "find_assets" /\ Malformed(last.query)) => last.exc = "ValidationError"

\* C16: every failure that leaves a provider operation is one of the seven
\* named conditions; no other exception leaves a call.
C16_FailuresAreNamed ==
    (~Idle /\ last.exc # "") => last.exc \in AfterglowErrors


\* the workspace of a user with an id under per-user isolation
WorkspaceOf(user_id) == join(abspath(cfg.root), user_id)

\* the last call neither changed nor returned anything at or below name
Untouched(name) ==
    /\ \A n \in DOMAIN fs \cup DOMAIN last.before :
          Within(n, name) =>
              /\ n \in DOMAIN fs /\ n \in DOMAIN last.before
              /\ fs[n] = last.before[n]
    /\ (last.op \in AssetOps /\ last.exc = "") =>
          \A a \in last.ret : ~Within(abspath(join(LastRoot.p, a.path)), name)
    /\ (last.op = "get_asset_data" /\ last.exc = "") =>
          ~Within(Resolution.filename, name)

\* C27: with per-user isolation, a call issued as one user neither reads,
\* lists, creates, renames, overwrites nor deletes anything in the workspace
\* of another user; the caller may be one with no user id.
C27_WorkspacesDisjoint ==
    (cfg.peruser /\ ~Idle) =>
        \A b \in Users \ {EmptyStr, last.user} : Untouched(WorkspaceOf(b))

\* the operations that change the backing store
MutatingOps == {"create_asset", "rename_asset", "update_asset", "delete_asset"}

\* C28: the effective root is never the operand of a mutation: after a
\* create_asset, rename_asset, update_asset or delete_asset with a path in
\* the root (the empty path included), the root is still a directory at the
\* same place and nothing outside it was created, moved, changed or removed.
C28_RootNeverMutated ==
    (last.op \in MutatingOps /\ LastRoot.ok /\ PathArgInside) =>
        /\ isdir(fs, LastRoot.p)
        /\ \A n \in DOMAIN fs \cup DOMAIN LastRoot.fs :
              ~Within(n, LastRoot.p) =>
                  /\ n \in DOMAIN fs /\ n \in DOMAIN LastRoot.fs
                  /\ fs[n] = LastRoot.fs[n]

\* C29: create_asset, update_asset and rename_asset are all-or-nothing: when
\* one of them raises, the backing store is what it was (the caller's root
\* having been resolved), so a create_asset that failed for another reason
\* than AssetAlreadyExistsError does not fail with it when it is retried.
C29_AllOrNothing ==
    (/\ last.op \in {"create_asset", "update_asset", "rename_asset"}
     /\ last.exc # "" /\ Resolution.exc = "" /\ PathArgInside) =>
        /\ fs = Resolution.fs
        /\ (last.op = "create_asset" /\ last.exc # "AssetAlreadyExistsError") =>
              create_asset(cfg, fs, last.user, last.path, last.data).exc
                  # "AssetAlreadyExistsError"

(***************************************************************************)
(* The first access of a user: the provider over a tree in which the       *)
(* workspace of user 1 has not been made yet.                              *)
(***************************************************************************)

\* the workspace of user 1 under per-user isolation
Workspace1 == join(RootDir, <<"1">>)

NewUserTree == Without(InitTree, Subtree(InitTree, Workspace1))

NewUserInit ==
    /\ cfg \in {Config(RootDir, peruser, AllLibs) : peruser \in BOOLEAN}
    /\ fs = NewUserTree
    /\ last = NoCall
    /\ nmut = 0
    /\ probe = Unused /\ ro = Unused /\ date = Unused /\ ftp = Unused /\ race = Unused

SpecNewUser == NewUserInit /\ [][Next]_vars

\* the conditions the provider checks before it changes anything
Preconditions ==
    {"AssetOutsideRootError", "AssetNotFoundError", "AssetAlreadyExistsError",
     "CannotUpdateCollectionAssetError"}

\* C23: a call that fails with AssetOutsideRootError, AssetNotFoundError,
\* AssetAlreadyExistsError or CannotUpdateCollectionAssetError leaves the
\* backing store exactly as it was before the call.
C23_PreconditionsBeforeMutation ==
    (~Idle /\ last.exc \in Preconditions) => fs = last.before

\* the operations that only read
ReadOps == {"get_asset", "get_child_assets", "find_assets", "get_asset_data"}

\* C24: resolving a path has no side effect: a read-only operation leaves the
\* backing store unchanged in every configuration, per-user isolation
\* included.
C24_ReadsChangeNothing ==
    last.op \in ReadOps => fs = last.before

(***************************************************************************)
(* A root whose last segment is also the name of a directory inside it:    *)
(* the provider at root /f over a tree with the collection a/f.            *)
(***************************************************************************)

NestedRoot == <<Sep, "f">>

NestedTree ==
    (<<Sep>> :> DirNode)
    @@ (NestedRoot :> DirNode)
    @@ (join(NestedRoot, <<"a">>) :> DirNode)
    @@ (join(NestedRoot, <<"a", Sep, "f">>) :> DirNode)
    @@ (join(NestedRoot, <<"a", Sep, "f", Sep, "x">>) :> FileNode(FitsImage(1, 1), TRUE))
    @@ (join(NestedRoot, <<"g">>) :> FileNode(JpegImage(1, 1), TRUE))

NestedInit ==
    /\ cfg \in {Config(NestedRoot, peruser, AllLibs) : peruser \in BOOLEAN}
    /\ fs = NestedTree
    /\ last = NoCall
    /\ nmut = 0
    /\ probe = Unused /\ ro = Unused /\ date = Unused /\ ftp = Unused /\ race = Unused

SpecNested == NestedInit /\ [][Next]_vars

\* the path of the child name of the collection at path
ChildPath(path, name) ==
    IF strip(path, Sep) = EmptyStr THEN name ELSE join(strip(path, Sep), name)

\* C30: listing and lookup agree on addressing: every asset that
\* get_child_assets(p) returns has the path p joined with its name, the asset
\* rename_asset returns has the path of its new name, and get_asset of that
\* path returns the asset of that name.
C30_ListedPathsAddress ==
    /\ (last.op = "get_child_assets" /\ last.exc = "" /\ PathArgInside) =>
          \A a \in last.ret :
              /\ a.path = ChildPath(last.path, a.name)
              /\ \A g \in get_asset(cfg, fs, last.user, a.path).ret :
                    g.name = a.name /\ g.collection = a.collection
    /\ (last.op = "rename_asset" /\ last.exc = "" /\ PathArgInside) =>
          \A a \in last.ret : a.path = NewPath(last.path, last.name[1])

(***************************************************************************)
(* Leaf classification: _get_asset as a function of the file and of the    *)
(* libraries installed.  The specification draws a regular file from the   *)
(* outcomes the decoders can have on it and classifies it once.            *)
(***************************************************************************)

\* the deployments: every choice of the optional libraries (lines 17-30)
LibSets == [PIL : BOOLEAN, rawpy : BOOLEAN, exifread : BOOLEAN]

\* a FITS file whose primary header has no NAXIS1 card: the probe opens it
\* and fails part-way (line 155)
FitsNoAxis == [NoFits EXCEPT !.open = TRUE, !.layers = 2]

\* a FITS file with EXPOSURE and TELESCOP cards whose FILTER card is no
\* string: the probe assigns sizes, exposure and telescope and then fails in
\* ','.join (line 168)
FitsBadFilter ==
    [FitsImage(2, 1).fits EXCEPT !.EXPOSURE = Some(7), !.TELESCOP = Some("T"),
                                 !.filter_ok = FALSE]

\* what pyfits makes of a file
FitsOutcomes == {NoFits, FitsImage(2, 1).fits, FitsNoAxis, FitsBadFilter}

\* EXIF tags with an exposure time t and no date
ExifExposure(t) == [NoExif EXCEPT !.ExposureTime = Some(t)]

\* what PIL makes of a file: not an image, a JPEG with EXIF tags, a JPEG
\* whose getexif() raises, a JPEG with an EXIF date of no known layout
PilOutcomes ==
    {NoPil,
     [JpegImage(1, 1).pil EXCEPT !.exif = ExifExposure(3)],
     [JpegImage(1, 1).pil EXCEPT !.exif_ok = FALSE],
     BadExifJpeg.pil}

RAW == <<"R", "A", "W">>

\* what rawpy makes of a file
RawOutcomes ==
    {NoRaw,
     [NoRaw EXCEPT !.open = TRUE, !.raw_type = RAW, !.num_colors = 3,
                   !.color_desc = "RGBG", !.width = 2, !.height = 2]}

\* what ExifRead makes of a file
ExifReadOutcomes == {NoExifRead, [ok |-> TRUE, exif |-> ExifExposure(5)]}

\* the files classified
Leaves ==
    {FileNode([size |-> 4, fits |-> f, pil |-> p, raw |-> r, exifread |-> e], a) :
        f \in FitsOutcomes, p \in PilOutcomes, r \in RawOutcomes,
        e \in ExifReadOutcomes, a \in BOOLEAN}

\* the name and path the file is classified under
LeafName == <<"x">>

ClassifyInit ==
    /\ probe \in {[libs |-> l, node |-> n, res |-> None] : l \in LibSets, n \in Leaves}
    /\ cfg = Unused /\ fs = Unused /\ last = Unused /\ nmut = Unused
    /\ ro = Unused /\ date = Unused /\ ftp = Unused /\ race = Unused

\* _get_asset runs on the file
Classify ==
    /\ probe.res = None
    /\ probe' = [probe EXCEPT
                   !.res = Some(get_leaf(probe.libs, LeafName, LeafName, probe.node))]
    /\ UNCHANGED <<cfg, fs, last, nmut, ro, date, ftp, race>>

ClassifyNext == Classify

SpecClassify == ClassifyInit /\ [][ClassifyNext]_vars

\* a probe accepts the file: it runs as far as assigning the type tag
FitsAccepts(n) ==
    /\ n.accessible /\ n.data.fits.open /\ n.data.fits.filter_ok
    /\ n.data.fits.NAXIS1 # None /\ n.data.fits.NAXIS2 # None

PilAccepts(libs, n) == libs.PIL /\ n.accessible /\ n.data.pil.open

RawAccepts(libs, n) == libs.rawpy /\ n.accessible /\ n.data.raw.open

\* the file is not rejected, and an asset returned for it has the type tag
Typed(res, tag) ==
    /\ res.exc # "UnrecognizedDataFormatError"
    /\ res.exc = "" => res.ret.metadata.type = tag

\* C14: the probes are tried in the order FITS, raster image, RAW; the type
\* of the asset is the tag of the first probe that accepts the file, and when
\* every probe fails classification raises UnrecognizedDataFormatError.
C14_FirstProbeWins ==
    probe.res # None =>
        IF FitsAccepts(probe.node)
        THEN Typed(probe.res[1], FITS)
        ELSE IF PilAccepts(probe.libs, probe.node)
        THEN Typed(probe.res[1], probe.node.data.pil.format)
        ELSE IF RawAccepts(probe.libs, probe.node)
        THEN Typed(probe.res[1], probe.node.data.raw.raw_type)
        ELSE probe.res[1].exc = "UnrecognizedDataFormatError"

\* the three format probes reject the file, and its EXIF data can be read
ExifOnly ==
    /\ probe.node.accessible /\ probe.libs.exifread /\ probe.node.data.exifread.ok
    /\ ~FitsAccepts(probe.node)
    /\ ~PilAccepts(probe.libs, probe.node)
    /\ ~RawAccepts(probe.libs, probe.node)

WithoutFits(node) == [node EXCEPT !.data.fits = NoFits]

\* C25: probes are exception-isolated: when the FITS probe throws part-way
\* and a later probe wins, the asset is the one the later probes give on
\* their own; nothing the FITS probe assigned before it threw is in it.
C25_FailedProbeLeavesNothing ==
    (probe.res # None /\ ~FitsAccepts(probe.node) /\ probe.res[1].exc = "") =>
        probe.res[1] = get_leaf(probe.libs, LeafName, LeafName, WithoutFits(probe.node))

\* the capture time of the winning probe is a string of no known layout
BadStamp ==
    /\ ~FitsAccepts(probe.node) /\ PilAccepts(probe.libs, probe.node)
    /\ probe.node.data.pil.exif_ok
    /\ probe.node.data.pil.exif = BadExifJpeg.pil.exif
    /\ ~(probe.libs.exifread /\ probe.node.data.exifread.ok)

\* C26: a capture timestamp that matches none of the known layouts does not
\* fail the classification: the asset is returned with time set to the
\* modification time of the file.
C26_BadStampFallsBack ==
    (probe.res # None /\ BadStamp) =>
        /\ probe.res[1].exc = ""
        /\ probe.res[1].ret.metadata.time = MTime

(***************************************************************************)
(* RestrictedRWLocalDiskDataProvider                                       *)
(***************************************************************************)

\* auth.current_user.username of the requests served
Usernames == {"ann", "bob", "eve"}

\* A provider object: the readonly attribute it stores (inherited from
\* DataProvider) and its writers (line 631; set from the configuration).
Provider(readonly, writers) == [readonly |-> readonly, writers |-> writers]

\* plain attribute lookup, as object.__getattribute__ does it
getattribute_stored(self, username, item) == self[item]

\* lines 633-639: __getattribute__.  readonly is computed at the lookup from
\* the user of the current request; every other attribute is looked up as
\* usual.
getattribute(self, username, item) ==
    IF item = "readonly" THEN username \notin self.writers
    ELSE self[item]

\* the attributes looked up
Items == {"readonly", "writers"}

RestrictedInit ==
    /\ ro \in {[self |-> Provider(r, w), user |-> u, read |-> None, seen |-> None] :
                 r \in BOOLEAN, w \in SUBSET Usernames, u \in Usernames}
    /\ cfg = Unused /\ fs = Unused /\ last = Unused /\ nmut = Unused
    /\ probe = Unused /\ date = Unused /\ ftp = Unused /\ race = Unused

\* the value of readonly read before the latest change, if any
Seen ==
    IF ro.read # None /\ ro.read[1].item = "readonly"
    THEN Some(ro.read[1].value) ELSE ro.seen

\* a request of another user arrives: auth.current_user changes
Login(u) ==
    /\ u # ro.user
    /\ ro' = [ro EXCEPT !.user = u, !.read = None, !.seen = Seen]
    /\ UNCHANGED <<cfg, fs, last, nmut, probe, date, ftp, race>>

\* the writers of the provider are replaced
SetWriters(w) ==
    /\ w # ro.self.writers
    /\ ro' = [ro EXCEPT !.self.writers = w, !.read = None, !.seen = Seen]
    /\ UNCHANGED <<cfg, fs, last, nmut, probe, date, ftp, race>>

\* provider.<item> is evaluated
ReadAttribute(item) ==
    /\ ro' = [ro EXCEPT !.read = Some([item |-> item,
                                       value |-> getattribute(ro.self, ro.user, item)])]
    /\ UNCHANGED <<cfg, fs, last, nmut, probe, date, ftp, race>>

RestrictedNext ==
    \/ \E u \in Usernames : Login(u)
    \/ \E w \in SUBSET Usernames : SetWriters(w)
    \/ \E item \in Items : ReadAttribute(item)

SpecRestricted == RestrictedInit /\ [][RestrictedNext]_vars

\* C13: every read of readonly is true exactly when the identity current at
\* the read is absent from the writers as they are at the read, whatever the
\* provider stores and whatever an earlier read returned.
C13_ReadonlyFresh ==
    (ro.read # None /\ ro.read[1].item = "readonly") =>
        ro.read[1].value = (ro.user \notin ro.self.writers)

\* readonly was read, the identity or the writers changed, and the next read
\* on the same provider object gave the other value
C13_Witness ==
    /\ ro.read # None /\ ro.read[1].item = "readonly"
    /\ ro.seen # None /\ ro.seen[1] # ro.read[1].value


(***************************************************************************)
(* FTPDataProvider._get_date (ftp_providerdraft.py)                        *)
(***************************************************************************)

\* lines 139-144: the base name, built character by character; it is reset
\* at every separator
RECURSIVE name_loop(_, _)
name_loop(path, name) ==
    IF path = EmptyStr THEN name
    ELSE name_loop(Tail(path),
                   IF Head(path) = Sep THEN EmptyStr ELSE Append(name, Head(path)))

\* s[a:b] of Python, for 0 <= a <= b
slice(s, a, b) == Take(Drop(s, a), b - a)

Letters ==
    <<"a", "b", "c", "d", "e", "f", "g", "h", "i", "j", "k", "l", "m",
      "n", "o", "p", "q", "r", "s", "t", "u", "v", "w", "x", "y", "z">>

\* the value of a character as a digit of int(s, base): 0-9, then a-z from
\* 10; 36 for any other character
CharVal(c) ==
    IF IsDigit(c) THEN DigitVal(c)
    ELSE IF \E k \in 1..26 : Letters[k] = c
    THEN 9 + (CHOOSE k \in 1..26 : Letters[k] = c)
    ELSE 36

RECURSIVE BaseVal(_, _)
BaseVal(s, base) ==
    IF s = EmptyStr THEN 0
    ELSE base * BaseVal(Take(s, Len(s) - 1), base) + CharVal(s[Len(s)])

\* int(s) of a str with no sign, blank or underscore: ValueError unless s is
\* a non-empty run of decimal digits
int_str(s) == int(PyStr(s))

\* int(s, base) of such a str of at most two characters.  base must be 0 or
\* in 2..36; every character must be a digit of the base; with base 0 the
\* string is read as a literal, in which a nonzero decimal number has no
\* leading zero.
int_base(s, base) ==
    IF base = 0
    THEN (IF /\ int_str(s).ok
             /\ (Len(s) = 1 \/ s[1] # "0" \/ \A k \in 1..Len(s) : s[k] = "0")
          THEN [ok |-> TRUE, v |-> DecVal(s)] ELSE [ok |-> FALSE, v |-> 0])
    ELSE IF base < 2 \/ base > 36 THEN [ok |-> FALSE, v |-> 0]
    ELSE IF s # EmptyStr /\ \A k \in 1..Len(s) : CharVal(s[k]) < base
    THEN [ok |-> TRUE, v |-> BaseVal(s, base)]
    ELSE [ok |-> FALSE, v |-> 0]

IsLeap(y) == y % 4 = 0 /\ (y % 100 # 0 \/ y % 400 = 0)

DaysIn(y, m) ==
    IF m = 2 THEN (IF IsLeap(y) THEN 29 ELSE 28)
    ELSE IF m \in {4, 6, 9, 11} THEN 30 ELSE 31

\* a datetime value
DateTime(y, m, d, h, mi) == [year |-> y, month |-> m, day |-> d, hour |-> h, minute |-> mi]

\* datetime(y, m, d, h): ValueError when a field is out of range
datetime(y, m, d, h) ==
    IF y \in 1..9999 /\ m \in 1..12 /\ d \in 1..DaysIn(y, m) /\ h \in 0..23
    THEN Returned(Some(DateTime(y, m, d, h, 0)))
    ELSE Raised("ValueError")

\* lines 148-149: the index of the first decimal digit of name, from i; the
\* loop reads name[i] before it tests i < len(name), so a name with no digit
\* from i on ends it with IndexError (-1)
RECURSIVE first_digit(_, _)
first_digit(name, i) ==
    IF i >= Len(name) THEN 0 - 1
    ELSE IF IsDigit(name[i + 1]) THEN i
    ELSE first_digit(name, i + 1)

\* line 157: datetime(int(datestr[0:4]), int(datestr[4:6]), 1)
year_month(datestr) ==
    IF int_str(slice(datestr, 0, 4)).ok /\ int_str(slice(datestr, 4, 6)).ok
    THEN datetime(int_str(slice(datestr, 0, 4)).v, int_str(slice(datestr, 4, 6)).v, 1, 0)
    ELSE Raised("ValueError")

\* the first three arguments of lines 160 and 163 are integers
day_fields_ok(datestr) ==
    /\ int_str(slice(datestr, 0, 2)).ok
    /\ int_str(slice(datestr, 2, 4)).ok
    /\ int_str(slice(datestr, 4, 6)).ok

\* line 160: datetime(2000+int(datestr[0:2]), int(datestr[2:4]),
\* int(datestr[4:6]))
site_day(datestr) ==
    IF day_fields_ok(datestr)
    THEN datetime(2000 + int_str(slice(datestr, 0, 2)).v,
                  int_str(slice(datestr, 2, 4)).v,
                  int_str(slice(datestr, 4, 6)).v, 0)
    ELSE Raised("ValueError")

\* line 163: the fourth argument is int(datestr[7:9], int(datestr[9:11])):
\* the two characters at 9 are the base in which the two at 7 are read, and
\* the datetime gets no minute
hour_arg(datestr) ==
    IF int_str(slice(datestr, 9, 11)).ok
    THEN int_base(slice(datestr, 7, 9), int_str(slice(datestr, 9, 11)).v)
    ELSE [ok |-> FALSE, v |-> 0]

\* line 163
data_file(datestr) ==
    IF day_fields_ok(datestr) /\ hour_arg(datestr).ok
    THEN datetime(2000 + int_str(slice(datestr, 0, 2)).v,
                  int_str(slice(datestr, 2, 4)).v,
                  int_str(slice(datestr, 4, 6)).v,
                  hour_arg(datestr).v)
    ELSE Raised("ValueError")

\* lines 151-163: datestr is name from its first digit on; the branch is
\* chosen by len(name)
by_length(name, datestr) ==
    IF Len(name) = 6 THEN year_month(datestr)
    ELSE IF Len(name) = 12 THEN site_day(datestr)
    ELSE data_file(datestr)

\* lines 147-163: the body of the try
parse_date(name) ==
    IF first_digit(name, 0) < 0 THEN Raised("IndexError")
    ELSE by_length(name, Drop(name, first_digit(name, 0)))

\* the function without its handler: what the body raises leaves it.  The
\* never-raises property must not hold of it.
get_date_uncaught(path) == parse_date(name_loop(path, EmptyStr))

\* lines 129-169: _get_date.  The bare except turns whatever the body raises
\* into date = None.
get_date(path) ==
    IF parse_date(name_loop(path, EmptyStr)).exc # "" THEN Returned(None)
    ELSE parse_date(name_loop(path, EmptyStr))

\* The paths parsed: a directory part, a site code, a date, a time of day and
\* an optional trailing separator.
DirParts == {EmptyStr, <<"/">>, <<"d", "/">>}

Sites == {EmptyStr, <<"l", "m">>, <<"g", "o", "n", "g", "l", "m">>}

Days ==
    {EmptyStr,
     <<"2", "0", "2", "3", "0", "1">>,
     <<"2", "3", "0", "1", "1", "5">>,
     <<"2", "3", "1", "3", "0", "1">>,
     <<"2", "3", "0", "2", "3", "0">>,
     <<"2", "3", "0", "1">>}

Times ==
    {EmptyStr,
     <<"t", "1", "2", "3", "0">>,
     <<"t", "0", "0", "0", "4">>,
     <<"t", "0", "7", "0", "0">>,
     <<"t", "1", "2", "1", "0">>}

DatePaths ==
    {d \o s \o day \o t \o e :
        d \in DirParts, s \in Sites, day \in Days, t \in Times,
        e \in {EmptyStr, <<"/">>}}

DateInit ==
    /\ date \in {[path |-> p, res |-> None] : p \in DatePaths}
    /\ cfg = Unused /\ fs = Unused /\ last = Unused /\ nmut = Unused
    /\ probe = Unused /\ ro = Unused /\ ftp = Unused /\ race = Unused

\* _get_date runs on the path
GetDate ==
    /\ date.res = None
    /\ date' = [date EXCEPT !.res = Some(get_date(date.path))]
    /\ UNCHANGED <<cfg, fs, last, nmut, probe, ro, ftp, race>>

DateNext == GetDate

SpecDate == DateInit /\ [][DateNext]_vars

\* the base name of the path parsed
DateName == name_loop(date.path, EmptyStr)

\* C17: for a path whose base name is "202301" _get_date returns
\* 2023-01-01, and for one whose base name is "lm230115" it returns
\* 2023-01-15.
C17_DirectoryNames ==
    date.res # None =>
        /\ DateName = <<"2", "0", "2", "3", "0", "1">> =>
              date.res[1] = Returned(Some(DateTime(2023, 1, 1, 0, 0)))
        /\ DateName = <<"l", "m", "2", "3", "0", "1", "1", "5">> =>
              date.res[1] = Returned(Some(DateTime(2023, 1, 15, 0, 0)))

\* C18: _get_date never raises: for every path it returns a timestamp or the
\* absent value.
C18_NeverRaises ==
    date.res # None => date.res[1].exc = ""

\* _get_date ran on a path whose try body fails: an empty base name, one with
\* no digit, or one whose digits are no date
C18_Witness ==
    /\ date.res # None
    /\ date.res[1] = Returned(None)
    /\ parse_date(DateName).exc \in {"IndexError", "ValueError"}

\* the digits of a date as YYMMDD denote a day of the calendar
IsDay(day) ==
    /\ Len(day) = 6
    /\ datetime(2000 + DecVal(slice(day, 0, 2)), DecVal(slice(day, 2, 4)),
                DecVal(slice(day, 4, 6)), 0).exc = ""

\* C19: for a well-formed data-file base name (site code, YYMMDD, "t", HHMM)
\* _get_date returns the timestamp with that date and that time of day.
C19_DataFileTimestamp ==
    date.res # None =>
        \A s \in Sites \ {EmptyStr}, day \in {d \in Days : IsDay(d)},
           t \in Times \ {EmptyStr} :
            DateName = s \o day \o t =>
                date.res[1] = Returned(Some(DateTime(
                    2000 + DecVal(slice(day, 0, 2)), DecVal(slice(day, 2, 4)),
                    DecVal(slice(day, 4, 6)),
                    DecVal(slice(t, 1, 3)), DecVal(slice(t, 3, 5)))))


(***************************************************************************)
(* FTPDataProvider (ftp_providerdraft.py).  The server is the environment: *)
(* a call is served against the replies the server gives to the commands   *)
(* the call sends.  A reply is "ok" or the ftplib exception it raises:     *)
(* error_perm for a 5xx reply, error_temp for a 4xx reply.                 *)
(***************************************************************************)

\* The outcome of a call: the exception that leaves it ("" when it returns),
\* the value returned, and the sessions it opened (FTP(host)) and closed
\* (ftp.quit()).
FtpOut(exc, ret, opened, quit) ==
    [exc |-> exc, ret |-> ret, opened |-> opened, quit |-> quit]

\* The file a transfer delivers: whether the payload is gzip data, whether
\* the decompressed bytes parse as FITS, and the cards of the primary header.
RemoteFile(gz, fits, naxis, sitename, date_obs) ==
    [gz |-> gz, fits |-> fits, naxis |-> naxis, sitename |-> sitename,
     date_obs |-> date_obs, size |-> 1]

\* a GONG image; its DATE-OBS is "iso" (one of the two ISO layouts), "junk"
\* (DATE-OBS and TIME-OBS present, in no known layout) or "none" (no card)
GoodFile == RemoteFile(TRUE, TRUE, TRUE, TRUE, "iso")

RemoteFiles ==
    {GoodFile,
     RemoteFile(FALSE, FALSE, FALSE, FALSE, "none"),
     RemoteFile(TRUE, FALSE, FALSE, FALSE, "none"),
     RemoteFile(TRUE, TRUE, FALSE, TRUE, "iso"),
     RemoteFile(TRUE, TRUE, TRUE, FALSE, "iso"),
     RemoteFile(TRUE, TRUE, TRUE, TRUE, "none"),
     RemoteFile(TRUE, TRUE, TRUE, TRUE, "junk")}

\* whether the path has a separator: get_asset_data sends one CWD for each
HasSep(path) == \E k \in 1..Len(path) : path[k] = Sep

\* the replies to get_asset_data: to login, to the CWDs, to RETR, and the
\* file transferred
DataReplies(login, cwd, retr, file) ==
    [login |-> login, cwd |-> cwd, retr |-> retr, file |-> file]

\* lines 171-200: get_asset_data.  The session is closed at line 194 only:
\* a failed login or CWD leaves the call as it is raised, a failed RETR as
\* AssetNotFoundError, both before quit; gzip.decompress runs after quit.
ftp_get_asset_data(path, d) ==
    IF d.login # "ok" THEN FtpOut(d.login, None, 1, 0)
    ELSE IF HasSep(path) /\ d.cwd # "ok" THEN FtpOut(d.cwd, None, 1, 0)
    ELSE IF d.retr # "ok" THEN FtpOut("AssetNotFoundError", None, 1, 0)
    ELSE IF ~d.file.gz THEN FtpOut("BadGzipFile", None, 1, 1)
    ELSE FtpOut("", Some(d.file), 1, 1)

\* lines 84-108: exptime from DATE-OBS.  A missing card is a KeyError, which
\* the ValueError handlers do not catch; when no layout matches, exptime is
\* _get_date(path).
ftp_exptime(path, file) ==
    IF file.date_obs = "none" THEN Raised("KeyError")
    ELSE IF file.date_obs = "iso" THEN Returned(Some("DATE-OBS"))
    ELSE get_date(path)

\* lines 67, 110-120: the metadata of a leaf; time stays _get_date(path)
\* when exptime is None
ftp_metadata(path, file, exptime) ==
    [time |-> IF exptime # None THEN exptime ELSE get_date(path).ret,
     type |-> FITS, size |-> file.size, width |-> "NAXIS1", height |-> "NAXIS2",
     telescope |-> "SITENAME"]

\* lines 73-120: the header of the file transferred.  HDUList.fromstring
\* raises on bytes that are no FITS; NAXIS1 / NAXIS2 missing is a KeyError;
\* a missing SITENAME is swallowed at line 82 and leaves telescope unbound,
\* which line 119 reads.
ftp_leaf(path, file, opened, quit) ==
    IF ~file.fits THEN FtpOut("OSError", None, opened, quit)
    ELSE IF ~file.naxis THEN FtpOut("KeyError", None, opened, quit)
    ELSE IF ftp_exptime(path, file).exc # ""
    THEN FtpOut(ftp_exptime(path, file).exc, None, opened, quit)
    ELSE IF ~file.sitename THEN FtpOut("UnboundLocalError", None, opened, quit)
    ELSE FtpOut("", Some(Asset(name_loop(path, EmptyStr), path, FALSE,
                               ftp_metadata(path, file, ftp_exptime(path, file).ret))),
                opened, quit + 1)

\* lines 70-122: a leaf.  SIZE, then the data over a second session (the
\* outcome d of get_asset_data), then the header; quit at line 122.
ftp_leaf_data(path, size, d) ==
    IF size # "ok" THEN FtpOut(size, None, 1, 0)
    ELSE IF d.exc # "" THEN FtpOut(d.exc, None, 1 + d.opened, d.quit)
    ELSE ftp_leaf(path, d.ret[1], 1 + d.opened, d.quit)

\* the replies to get_asset: to login, to CWD path, to NLST path ("names":
\* a listing whose first name is not empty, "blank": one whose first name is
\* empty, "empty": no name), to SIZE, and those to get_asset_data
AssetReplies(login, cwd, nlst, size, data) ==
    [login |-> login, cwd |-> cwd, nlst |-> nlst, size |-> size, data |-> data]

\* lines 56-65: the kind of the asset: "collection", "leaf", or the
\* exception that leaves the try statement
ftp_kind(r) ==
    IF r.cwd = "ok" THEN "collection"
    ELSE IF r.cwd # "error_perm" THEN r.cwd
    ELSE IF r.nlst = "names" THEN "leaf"
    ELSE IF r.nlst = "blank" THEN "AssetNotFoundError"
    ELSE IF r.nlst = "empty" THEN "IndexError"
    ELSE r.nlst

\* lines 39-127: get_asset
ftp_get_asset(path, r) ==
    IF r.login # "ok" THEN FtpOut(r.login, None, 1, 0)
    ELSE IF ftp_kind(r) = "collection"
    THEN FtpOut("", Some(Asset(name_loop(path, EmptyStr), path, TRUE,
                               [time |-> get_date(path).ret])), 1, 1)
    ELSE IF ftp_kind(r) = "leaf"
    THEN ftp_leaf_data(path, r.size, ftp_get_asset_data(path, r.data))
    ELSE FtpOut(ftp_kind(r), None, 1, 0)

\* a name in the listing of a directory and the replies about it: to CWD
\* fpath, to the CWD back to path, to SIZE
Child(name, cwd, back, size) == [name |-> name, cwd |-> cwd, back |-> back, size |-> size]

\* line 222: fpath = '/'+path+'/'+f
child_path(path, f) == <<Sep>> \o path \o <<Sep>> \o f

\* lines 226-242: the asset of one child; error_perm of either CWD is
\* swallowed, collection being True once the first CWD succeeded
child_asset(path, c) ==
    Asset(c.name, child_path(path, c.name), c.cwd = "ok",
          IF c.cwd = "ok" THEN [time |-> get_date(child_path(path, c.name)).ret]
          ELSE [time |-> get_date(child_path(path, c.name)).ret, size |-> 1])

\* the exception the loop body raises for a child, "" when it raises none:
\* a reply to CWD other than error_perm, or a failed SIZE of a leaf
child_exc(c) ==
    IF c.cwd = "ok" THEN (IF c.back \in {"ok", "error_perm"} THEN "" ELSE c.back)
    ELSE IF c.cwd # "error_perm" THEN c.cwd
    ELSE IF c.size # "ok" THEN c.size
    ELSE ""

\* lines 220-243: the loop over the listing
RECURSIVE child_assets(_, _, _)
child_assets(path, flist, assets) ==
    IF flist = << >> THEN FtpOut("", assets, 1, 1)
    ELSE IF child_exc(Head(flist)) # "" THEN FtpOut(child_exc(Head(flist)), << >>, 1, 0)
    ELSE child_assets(path, Tail(flist), Append(assets, child_asset(path, Head(flist))))

\* the replies to get_child_assets: to login, to CWD path, to NLST (ok,
\* the listing being flist, or an exception)
ChildReplies(login, cwd, nlst, flist) ==
    [login |-> login, cwd |-> cwd, nlst |-> nlst, flist |-> flist]

\* lines 210-245: get_child_assets.  Any failure of CWD path is raised as
\* AssetNotFoundError; quit at line 244.
ftp_get_child_assets(path, r) ==
    IF r.login # "ok" THEN FtpOut(r.login, << >>, 1, 0)
    ELSE IF r.cwd # "ok" THEN FtpOut("AssetNotFoundError", << >>, 1, 0)
    ELSE IF r.nlst # "ok" THEN FtpOut(r.nlst, << >>, 1, 0)
    ELSE child_assets(path, r.flist, << >>)

\* the replies drawn
Logins == {"ok", "error_perm"}

Cwds == {"ok", "error_perm", "error_temp"}

Nlsts == {"names", "blank", "empty", "error_perm", "error_temp"}

Sizes == {"ok", "error_perm"}

DataReplySet ==
    {DataReplies("ok", "ok", "ok", f) : f \in RemoteFiles}
    \cup {DataReplies("error_perm", "ok", "ok", GoodFile),
          DataReplies("ok", "error_perm", "ok", GoodFile),
          DataReplies("ok", "ok", "error_perm", GoodFile)}

AssetReplySet ==
    {AssetReplies(l, c, n, sz, d) :
        l \in Logins, c \in Cwds, n \in Nlsts, sz \in Sizes, d \in DataReplySet}

Children(name) ==
    {Child(name, "ok", "ok", "ok"), Child(name, "ok", "error_perm", "ok"),
     Child(name, "error_perm", "ok", "ok"), Child(name, "error_perm", "ok", "error_perm"),
     Child(name, "error_temp", "ok", "ok")}

Listings ==
    {<< >>} \cup {<<a>> : a \in Children(<<"a">>)}
    \cup {<<a, b>> : a \in Children(<<"a">>), b \in Children(<<"2", "0", "2", "3", "0", "1">>)}

ChildReplySet ==
    {ChildReplies(l, c, "ok", fl) : l \in Logins, c \in Cwds, fl \in Listings}
    \cup {ChildReplies("ok", "ok", "error_perm", << >>)}

\* the paths asked for: with and without a separator
FtpPaths == {<<"d">>, <<"d", "/", "l", "m", "2", "3", "0", "1", "1", "5">>}

\* the sessions followed: calls are served while fewer are open
MaxSessions == 2

FtpCall(op, path, replies, out) == [op |-> op, path |-> path, replies |-> replies, out |-> out]

NoFtpCall == FtpCall("", EmptyStr, << >>, FtpOut("", None, 0, 0))

FtpInit ==
    /\ ftp = [sessions |-> 0, call |-> NoFtpCall]
    /\ cfg = Unused /\ fs = Unused /\ last = Unused /\ nmut = Unused
    /\ probe = Unused /\ ro = Unused /\ date = Unused /\ race = Unused

\* a call runs to completion: the sessions it opened and did not close stay
\* open on the server
FtpServed(op, path, replies, out) ==
    /\ ftp.call = NoFtpCall
    /\ ftp.sessions < MaxSessions
    /\ ftp' = [sessions |-> ftp.sessions + out.opened - out.quit,
               call |-> FtpCall(op, path, replies, out)]
    /\ UNCHANGED <<cfg, fs, last, nmut, probe, ro, date, race>>

FtpGetAsset ==
    \E path \in FtpPaths, r \in AssetReplySet :
        FtpServed("get_asset", path, r, ftp_get_asset(path, r))

FtpGetAssetData ==
    \E path \in FtpPaths, d \in DataReplySet :
        FtpServed("get_asset_data", path, d, ftp_get_asset_data(path, d))

FtpGetChildAssets ==
    \E path \in FtpPaths, r \in ChildReplySet :
        FtpServed("get_child_assets", path, r, ftp_get_child_assets(path, r))

\* the caller has the outcome of the call
FtpRespond ==
    /\ ftp.call # NoFtpCall
    /\ ftp' = [ftp EXCEPT !.call = NoFtpCall]
    /\ UNCHANGED <<cfg, fs, last, nmut, probe, ro, date, race>>

FtpNext == FtpGetAsset \/ FtpGetAssetData \/ FtpGetChildAssets \/ FtpRespond

SpecFtp == FtpInit /\ [][FtpNext]_vars

\* C20: every session a remote operation opens is closed by the time the
\* operation returns or raises: once a call is over no session is open.
C20_SessionsClosed == ftp.sessions = 0


\* get_asset was served and its session was logged in
AssetServed == ftp.call.op = "get_asset" /\ ftp.call.replies.login = "ok"

\* C21: remote get_asset makes the asset a collection when CWD succeeds, a
\* leaf when CWD is answered permission-denied and the listing of the path
\* has a name, and raises AssetNotFoundError on every other outcome.
C21_KindDecision ==
    (AssetServed /\ ftp.call.replies.nlst # "blank") =>
        IF ftp.call.replies.cwd = "ok"
        THEN ftp.call.out.exc = "" /\ ftp.call.out.ret[1].collection
        ELSE IF ftp.call.replies.cwd = "error_perm" /\ ftp.call.replies.nlst = "names"
        THEN ftp.call.out.exc = "" => ~ftp.call.out.ret[1].collection
        ELSE ftp.call.out.exc = "AssetNotFoundError"


(***************************************************************************)
(* Concurrent create_asset calls for one path (local_disk_provider.py      *)
(* lines 501-528).  The method takes no lock, so two calls interleave at   *)
(* the granularity of the os calls they make: the existence check, making  *)
(* the parent, makedirs or open of the path, the write, and _get_asset.    *)
(***************************************************************************)

\* the two calls
Creators == {"A", "B"}

\* what is at the path: nothing, a directory, or a file and its bytes
Nothing == [kind |-> "none", bytes |-> << >>]

ADir == [kind |-> "dir", bytes |-> << >>]

AFile(bytes) == [kind |-> "file", bytes |-> bytes]

\* the data argument of a call: None, or bytes that name the caller
Payloads(c) == {None, Some(<<c>>), Some(<<c, c>>)}

\* a write that leaves a file that has bytes as it is.  The last-writer
\* property must not hold of it.
overlay_kept(bytes, payload) == IF bytes # << >> THEN bytes ELSE payload

\* f.write(data) on a file opened with 'wb': the bytes go to offset 0 of the
\* file as it is at the write; what the file has beyond them stays
overlay(bytes, payload) == payload \o Drop(bytes, Len(payload))

RaceInit ==
    /\ race \in {[parent |-> par, node |-> n,
                  data |-> [c \in Creators |-> IF c = "A" THEN a ELSE b],
                  pc |-> [c \in Creators |-> "check"],
                  exc |-> [c \in Creators |-> ""],
                  wrote |-> << >>] :
                    par \in BOOLEAN, n \in {Nothing, AFile(<<"0">>)},
                    a \in Payloads("A"), b \in Payloads("B")}
    /\ race.node # Nothing => race.parent
    /\ cfg = Unused /\ fs = Unused /\ last = Unused /\ nmut = Unused
    /\ probe = Unused /\ ro = Unused /\ date = Unused /\ ftp = Unused

\* the call c goes on at position pc, having raised exc ("" for none)
RaceStep(c, pc, exc, parent, node, wrote) ==
    /\ race' = [race EXCEPT !.pc[c] = pc, !.exc[c] = exc, !.parent = parent,
                            !.node = node, !.wrote = wrote]
    /\ UNCHANGED <<cfg, fs, last, nmut, probe, ro, date, ftp>>

\* lines 502-504: os.path.exists(filename)
RaceCheck(c) ==
    /\ race.pc[c] = "check"
    /\ IF race.node # Nothing
       THEN RaceStep(c, "done", "AssetAlreadyExistsError", race.parent, race.node, race.wrote)
       ELSE RaceStep(c, "parent", "", race.parent, race.node, race.wrote)

\* lines 508-514: the parent is made when it does not exist; EEXIST is
\* tolerated
RaceParent(c) ==
    /\ race.pc[c] = "parent"
    /\ RaceStep(c, "make", "", TRUE, race.node, race.wrote)

\* lines 516-521: os.makedirs(filename) for a collection, which fails when
\* the path exists; open(filename, 'wb') for a leaf, which creates the file
\* or truncates it and fails on a directory.  A failure is raised as
\* FilesystemError (lines 524-526).
RaceMake(c) ==
    /\ race.pc[c] = "make"
    /\ IF race.data[c] = None
       THEN (IF race.node = Nothing
             THEN RaceStep(c, "get", "", race.parent, ADir, race.wrote)
             ELSE RaceStep(c, "done", "FilesystemError", race.parent, race.node, race.wrote))
       ELSE (IF race.node.kind = "dir"
             THEN RaceStep(c, "done", "FilesystemError", race.parent, race.node, race.wrote)
             ELSE RaceStep(c, "write", "", race.parent, AFile(<< >>), race.wrote))

\* line 522: f.write(data), flushed when the with block closes the file
RaceWrite(c) ==
    /\ race.pc[c] = "write"
    /\ RaceStep(c, "get", "", race.parent,
                AFile(overlay(race.node.bytes, race.data[c][1])),
                Append(race.wrote, c))

\* line 528: _get_asset on what is at the path now: the asset, or
\* UnrecognizedDataFormatError when no decoder accepts the bytes
RaceGet(c) ==
    /\ race.pc[c] = "get"
    /\ \E exc \in {"", "UnrecognizedDataFormatError"} :
        /\ exc # "" => race.node.kind = "file"
        /\ RaceStep(c, "done", exc, race.parent, race.node, race.wrote)

RaceNext ==
    \E c \in Creators :
        RaceCheck(c) \/ RaceParent(c) \/ RaceMake(c) \/ RaceWrite(c) \/ RaceGet(c)

SpecRace == RaceInit /\ [][RaceNext]_vars

\* both calls are over
RaceOver == \A c \in Creators : race.pc[c] = "done"

\* the call that wrote last
LastWriter == race.wrote[Len(race.wrote)]

\* C22: the local provider takes no lock.  A call that raised
\* AssetAlreadyExistsError wrote nothing; two calls that both passed the
\* existence check both write, neither raising AssetAlreadyExistsError, and
\* when they are over the file begins with the payload of the call that
\* wrote last.
C22_LastWriterWins ==
    /\ \A c \in Creators :
          race.exc[c] = "AssetAlreadyExistsError" =>
              \A k \in 1..Len(race.wrote) : race.wrote[k] # c
    /\ (RaceOver /\ race.wrote # << >>) =>
          /\ race.node.kind = "file"
          /\ Take(race.node.bytes, Len(race.data[LastWriter][1]))
                = race.data[LastWriter][1]

\* two calls for a path that did not exist are over, both wrote, neither
\* raised AssetAlreadyExistsError, and the path holds the payload of the one
\* that wrote last
C22_Witness ==
    /\ RaceOver /\ Len(race.wrote) = 2
    /\ \A c \in Creators : race.exc[c] # "AssetAlreadyExistsError"
    /\ race.node = AFile(race.data[LastWriter][1])

=============================================================================
